---- MODULE Spec2Model ----
(***************************************************************************)
(* TaskMan (taskman-obsidian): the per-file write queue, the mutation      *)
(* engine (TaskEditor), and the vault index with its cache (TaskIndexer).  *)
(*                                                                         *)
(* Text is modelled at token level: a line is a sequence of tokens, a file *)
(* content is a sequence of lines.  A token is a record [t, n, d]:         *)
(*   box   n = 0 "- [ ]", 1 "- [x]", 2 "- [X]"                             *)
(*   todo  the lead-in keyword "todo"                                      *)
(*   w     a title word, n its number                                      *)
(*   date  a compact YYYYMMDD date, n its day number                       *)
(*   rec   a recurrence expression ("every week"), n its number            *)
(*   meta  <!--todo:id=n;v=1[;done=d]-->, d = 0 when there is no done date *)
(***************************************************************************)
EXTENDS Integers, Sequences, FiniteSets, TLC

Tok(t, n, d) == [t |-> t, n |-> n, d |-> d]
Box(c) == Tok("box", c, 0)
Todo == Tok("todo", 0, 0)
W(k) == Tok("w", k, 0)
Date(k) == Tok("date", k, 0)
Rec(k) == Tok("rec", k, 0)
Meta(id, done) == Tok("meta", id, done)
Prio(n) == Tok("prio", n, 0)
Tag(k) == Tok("tag", k, 0)
Proj(k) == Tok("proj", k, 0)
Est(k) == Tok("est", k, 0)

IsBox(tok) == tok.t = "box"
IsTodo(tok) == tok.t = "todo"
IsMeta(tok) == tok.t = "meta"
IsDate(tok) == tok.t = "date"
IsRec(tok) == tok.t = "rec"
IsWord(tok) == tok.t = "w"

\* Index of the first token of s satisfying P, 0 when there is none.
FirstIdx(s, P(_)) ==
  IF \E i \in 1..Len(s) : P(s[i])
  THEN CHOOSE i \in 1..Len(s) : P(s[i]) /\ \A j \in 1..(i - 1) : ~P(s[j])
  ELSE 0

\* F at the value of v.  A definition that uses an intermediate result more
\* than once takes it as the argument of a LAMBDA: the result is then computed
\* once, like a const of the source.
At(F(_), v) == CHOOSE r \in {F(x) : x \in {v}} : TRUE

\* s without its i-th element.
RemoveAt(s, i) == SubSeq(s, 1, i - 1) \o SubSeq(s, i + 1, Len(s))

(***************************************************************************)
(* hash.ts: FNV-1a, 32 bit.  A 32-bit value is kept as <<hi, lo>>, two     *)
(* 16-bit halves, so that the multiplication modulo 2^32 is exact.         *)
(***************************************************************************)
TypeCode(t) ==
  CASE t = "box" -> 91
    [] t = "todo" -> 116
    [] t = "w" -> 119
    [] t = "date" -> 100
    [] t = "rec" -> 101
    [] t = "meta" -> 60
    [] t = "prio" -> 33
    [] t = "tag" -> 35
    [] t = "proj" -> 43
    [] t = "est" -> 126
    [] OTHER -> 63

\* The characters of one token, as codes below 256.
TokCodes(tok) == <<TypeCode(tok.t), 48 + tok.n, 48 + tok.d>>

RECURSIVE LineCodes(_)
LineCodes(line) ==
  IF Len(line) = 0 THEN <<>>
  ELSE IF Len(line) = 1 THEN TokCodes(line[1])
  ELSE TokCodes(line[1]) \o <<32>> \o LineCodes(Tail(line))

\* lines.join("\n")
RECURSIVE ContentCodes(_)
ContentCodes(lines) ==
  IF Len(lines) = 0 THEN <<>>
  ELSE IF Len(lines) = 1 THEN LineCodes(lines[1])
  ELSE LineCodes(lines[1]) \o <<10>> \o ContentCodes(Tail(lines))

RECURSIVE XorBits(_, _, _)
XorBits(a, b, k) ==
  IF k = 0 THEN 0
  ELSE (((a % 2) + (b % 2)) % 2) + 2 * XorBits(a \div 2, b \div 2, k - 1)

FnvOffsetHi == 33052
FnvOffsetLo == 40389
FnvPrimeLow == 403

\* hash ^= c; hash = (hash * 0x01000193) >>> 0
FnvStep(h, c) ==
  At(LAMBDA lo1 :
       <<((h[1] * FnvPrimeLow) + ((lo1 * FnvPrimeLow) \div 65536)
            + ((lo1 % 256) * 256)) % 65536,
         (lo1 * FnvPrimeLow) % 65536>>,
     ((h[2] \div 256) * 256) + XorBits(h[2] % 256, c, 8))

\* for (let i = 0; i < input.length; i++): the hash after the codes from the
\* i-th on.
RECURSIVE FnvFold(_, _, _)
FnvFold(h, codes, i) ==
  IF i > Len(codes) THEN h
  ELSE At(LAMBDA next : FnvFold(next, codes, i + 1), FnvStep(h, codes[i]))

fnv1a32(codes) == At(LAMBDA c : FnvFold(<<FnvOffsetHi, FnvOffsetLo>>, c, 1), codes)

(***************************************************************************)
(* parser.ts: the metadata comment.                                        *)
(***************************************************************************)
NoMeta == [id |-> 0, done |-> 0]

\* line.match(/<!--todo:id=([a-z0-9]+);v=(\d+)(?:;done=([0-9-]+))?-->/i)
parseTodoMeta(line) ==
  LET i == FirstIdx(line, IsMeta)
  IN IF i = 0 THEN NoMeta ELSE [id |-> line[i].n, done |-> line[i].d]

formatTodoMeta(meta) == Meta(meta.id, meta.done)

\* line.replace(/\s*<!--todo:.*?-->\s*$/i, "").trimEnd(): the match starts at
\* the first comment and must reach the end of the line.
stripTodoMeta(line) ==
  IF Len(line) > 0 /\ IsMeta(line[Len(line)])
  THEN SubSeq(line, 1, FirstIdx(line, IsMeta) - 1)
  ELSE line

\* /^- \[( |x|X)\]/ or /^todo\b/i on the trimmed line
isTodoLineCandidate(line) ==
  Len(line) > 0 /\ (IsBox(line[1]) \/ IsTodo(line[1]))

(***************************************************************************)
(* hash.ts: normalizeForMatch.                                             *)
(***************************************************************************)
normalizeForMatch(line) ==
  LET noComment == stripTodoMeta(line)
  IN IF Len(noComment) > 0 /\ IsBox(noComment[1])
     THEN <<Box(0)>> \o Tail(noComment)
     ELSE noComment

(***************************************************************************)
(* parser.ts: parseTodoLine.  The extractors of the source that the model  *)
(* keeps are the priority, the estimate, the recurrence, the date, the     *)
(* tags and the project; what is left is the title.                        *)
(***************************************************************************)
ParsedNull ==
  [ok |-> FALSE, checked |-> FALSE, title |-> <<>>, dueRaw |-> 0, recurrence |-> 0,
   priority |-> 0, tags |-> <<>>, project |-> 0, estimate |-> 0]

\* The first standalone !, !! or !!! and the text without it.
parsePriority(text) ==
  At(LAMBDA k : IF k = 0 THEN [priority |-> 0, rest |-> text]
                ELSE [priority |-> text[k].n, rest |-> RemoveAt(text, k)],
     FirstIdx(text, LAMBDA tok : tok.t = "prio"))

\* The first ~2h and the text without it.
parseTimeEstimate(text) ==
  At(LAMBDA k : IF k = 0 THEN [estimate |-> 0, rest |-> text]
                ELSE [estimate |-> text[k].n, rest |-> RemoveAt(text, k)],
     FirstIdx(text, LAMBDA tok : tok.t = "est"))

\* Every #tag in order, the first +Project, and the text without any of them.
parseTagsAndContexts(text) ==
  At(LAMBDA k :
       [tags |-> At(LAMBDA ts : [j \in 1..Len(ts) |-> ts[j].n], SelectSeq(text, LAMBDA tok : tok.t = "tag")),
        project |-> IF k = 0 THEN 0 ELSE text[k].n,
        rest |-> SelectSeq(text, LAMBDA tok : tok.t \notin {"tag", "proj"})],
     FirstIdx(text, LAMBDA tok : tok.t = "proj"))

\* The date extractor on what the recurrence extractor left; the rest is the
\* title, and an empty title is no task.
ExtractDate(checked, recurrence, afterRecurrence) ==
  LET di == FirstIdx(afterRecurrence, IsDate)
      afterDate == IF di = 0 THEN afterRecurrence ELSE RemoveAt(afterRecurrence, di)
  IN At(LAMBDA tp :
          IF Len(tp.rest) = 0 THEN ParsedNull
          ELSE [ParsedNull EXCEPT
                  !.ok = TRUE, !.checked = checked, !.title = tp.rest,
                  !.dueRaw = IF di = 0 THEN 0 ELSE afterRecurrence[di].n,
                  !.recurrence = recurrence, !.tags = tp.tags, !.project = tp.project],
        parseTagsAndContexts(afterDate))

\* The recurrence extractor on what the estimate extractor left.
ExtractRecurrence(checked, text) ==
  LET ri == FirstIdx(text, IsRec)
  IN IF Len(text) = 0 THEN ParsedNull
     ELSE At(LAMBDA afterRecurrence :
               ExtractDate(checked, IF ri = 0 THEN 0 ELSE text[ri].n, afterRecurrence),
             IF ri = 0 THEN text ELSE RemoveAt(text, ri))

\* The priority and the estimate extractors on the text after the checkbox and
\* the keyword, then the others.
ExtractAll(checked, text) ==
  IF Len(text) = 0 THEN ParsedNull
  ELSE At(LAMBDA pr :
            At(LAMBDA es :
                 At(LAMBDA parsed :
                      IF parsed.ok
                      THEN [parsed EXCEPT !.priority = pr.priority, !.estimate = es.estimate]
                      ELSE parsed,
                    ExtractRecurrence(checked, es.rest)),
               parseTimeEstimate(pr.rest)),
          parsePriority(text))

parseTodoLine(line) ==
  IF ~isTodoLineCandidate(line) THEN ParsedNull
  ELSE
    At(LAMBDA base :
         LET hasBox == Len(base) > 0 /\ IsBox(base[1])
             afterBox == IF hasBox THEN Tail(base) ELSE base
         IN \* textAfterCheckbox.replace(/^todo\s+/i, "")
            At(LAMBDA text : ExtractAll(hasBox /\ base[1].n # 0, text),
               IF Len(afterBox) > 1 /\ IsTodo(afterBox[1])
               THEN Tail(afterBox) ELSE afterBox),
       stripTodoMeta(line))

(***************************************************************************)
(* indexer: normalizeToCheckboxFormat (the shorthand pre-pass).            *)
(***************************************************************************)
\* First i with line[i] a checkbox, line[i+1] "todo" and a token after it:
\* the match of /(\- \[( |x|X)\]\s+)todo\s+/i
BoxTodoIdx(line) ==
  LET hit(i) == IsBox(line[i]) /\ IsTodo(line[i + 1])
      S == {i \in 1..(Len(line) - 2) : hit(i)}
  IN IF S = {} THEN 0 ELSE CHOOSE i \in S : \A j \in S : i <= j

normalizeToCheckboxFormat(line) ==
  IF Len(line) > 0 /\ IsBox(line[1])
  THEN LET i == BoxTodoIdx(line)
       IN IF i = 0 THEN line ELSE RemoveAt(line, i + 1)
  ELSE IF Len(line) > 1 /\ IsTodo(line[1])
  THEN LET withoutTodo == Tail(line)
           di == FirstIdx(withoutTodo, IsDate)
       IN IF di # 0
          THEN <<Box(0)>> \o RemoveAt(withoutTodo, di) \o <<withoutTodo[di]>>
          ELSE <<Box(0)>> \o withoutTodo
  ELSE line

NormalizeLines(lines) == [i \in 1..Len(lines) |-> normalizeToCheckboxFormat(lines[i])]

(***************************************************************************)
(* indexer: the parse loop of reindexFileInternal (lines 380-434).         *)
(***************************************************************************)
Indices(s) == [i \in 1..Len(s) |-> i]

LineParses(lines, i) == isTodoLineCandidate(lines[i]) /\ parseTodoLine(lines[i]).ok

LineFails(lines, i) == isTodoLineCandidate(lines[i]) /\ ~parseTodoLine(lines[i]).ok

\* A pass that keeps no count.
OccurrenceAlwaysFirst(lines, i) == 1

\* (normalizedCount.get(normalized) ?? 0) + 1
Occurrence(lines, i) ==
  1 + Cardinality({j \in 1..(i - 1) :
        /\ LineParses(lines, j)
        /\ normalizeForMatch(stripTodoMeta(lines[j]))
             = normalizeForMatch(stripTodoMeta(lines[i]))})

\* `${file.path}:${fnv1a32(normalized)}:${occ}`
EphemeralId(path, lines, i) ==
  At(LAMBDA normalized :
       <<path>> \o fnv1a32(LineCodes(normalized)) \o <<Occurrence(lines, i)>>,
     normalizeForMatch(stripTodoMeta(lines[i])))

\* A stable identity as a key of the maps: the ids of fileToTaskIds are
\* strings of either kind, here sequences of either length.
StableKey(id) == <<id>>

TaskOfLine(path, lines, i) ==
  At(LAMBDA parsed :
       [stableId |-> parseTodoMeta(lines[i]).id,
        ephemeralId |-> EphemeralId(path, lines, i),
        filePath |-> path,
        checked |-> parsed.checked,
        title |-> parsed.title,
        dueRaw |-> parsed.dueRaw,
        completedDate |-> parseTodoMeta(lines[i]).done,
        recurrence |-> parsed.recurrence,
        lineNoHint |-> i - 1,
        rawLine |-> lines[i]],
     parseTodoLine(lines[i]))

ParseTasks(path, lines) ==
  At(LAMBDA good : [k \in 1..Len(good) |-> TaskOfLine(path, lines, good[k])],
     SelectSeq(Indices(lines), LAMBDA i : LineParses(lines, i)))

ParseErrorOf(path, lines, i) ==
  [filePath |-> path, lineNo |-> i - 1, line |-> lines[i], reason |-> "Invalid todo format"]

ParseErrors(path, lines) ==
  At(LAMBDA bad : [k \in 1..Len(bad) |-> ParseErrorOf(path, lines, bad[k])],
     SelectSeq(Indices(lines), LAMBDA i : LineFails(lines, i)))

(***************************************************************************)
(* editor.ts: locating and rewriting a line.  Line indices are 1-based in  *)
(* the model and 0 stands for "not found"; lineNoHint keeps the source's   *)
(* 0-based numbering.                                                      *)
(***************************************************************************)
\* A toggle that checks the box whatever its state.
toggleCheckboxSet(line) ==
  IF Len(line) > 0 /\ IsBox(line[1]) THEN <<Box(1)>> \o Tail(line) ELSE line

\* check.toLowerCase() === "x" ? "[ ]" : "[x]", anchored at the line start
toggleCheckbox(line) ==
  IF Len(line) > 0 /\ IsBox(line[1])
  THEN <<Box(IF line[1].n = 0 THEN 1 ELSE 0)>> \o Tail(line)
  ELSE line

\* /^(\s*)- \[( |x|X)\]\s+/
isTodoLine(line) == Len(line) > 1 /\ IsBox(line[1])

HasStableId(line, stableId) ==
  \E k \in 1..Len(line) : IsMeta(line[k]) /\ line[k].n = stableId

\* lines.findIndex((l) => l.includes(`<!--todo:id=${stableId};`))
findByStableId(lines, stableId) ==
  LET S == {i \in 1..Len(lines) : HasStableId(lines[i], stableId)}
  IN IF S = {} THEN 0 ELSE CHOOSE i \in S : \A j \in S : i <= j

Abs(x) == IF x < 0 THEN 0 - x ELSE x

\* A search that takes the first content-equal line whatever the hint.
findEphemeralMatchFirst(lines, task) ==
  LET needle == normalizeForMatch(stripTodoMeta(task.rawLine))
  IN At(LAMBDA matches :
          IF matches = {} THEN 0 ELSE CHOOSE i \in matches : \A j \in matches : i <= j,
        {i \in 1..Len(lines) :
           /\ isTodoLine(lines[i])
           /\ normalizeForMatch(stripTodoMeta(lines[i])) = needle})

\* The content-equal line closest to the hint, the first one among ties.
findEphemeralMatch(lines, task) ==
  LET needle == normalizeForMatch(stripTodoMeta(task.rawLine))
      dist(i) == Abs((i - 1) - task.lineNoHint)
  IN At(LAMBDA matches :
          IF matches = {} THEN 0
          ELSE CHOOSE i \in matches :
                 \A j \in matches : dist(i) < dist(j) \/ (dist(i) = dist(j) /\ i <= j),
        {i \in 1..Len(lines) :
           /\ isTodoLine(lines[i])
           /\ normalizeForMatch(stripTodoMeta(lines[i])) = needle})

LocateLine(lines, task) ==
  IF task.stableId # 0 THEN findByStableId(lines, task.stableId)
  ELSE findEphemeralMatch(lines, task)

\* formatDate(new Date()): the day a mutation runs on.
Today == 9

\* calculateNextOccurrence, case "week": interval * 7 days later.
calculateNextOccurrence(currentDate, recurrence) == currentDate + (recurrence * 7)

InsertAfter(lines, idx, newLine) ==
  SubSeq(lines, 1, idx) \o <<newLine>> \o SubSeq(lines, idx + 1, Len(lines))

\* How many identifiers generateId() hands out while toggling.
ToggleIdsUsed(lines, task) ==
  At(LAMBDA idx :
       IF idx = 0 THEN 0
       ELSE (IF parseTodoMeta(lines[idx]).id = 0 THEN 1 ELSE 0)
            + (IF ~task.checked /\ task.recurrence # 0 /\ task.dueRaw # 0 THEN 1 ELSE 0),
     LocateLine(lines, task))

\* A rewrite that gives the next occurrence the identity of the completed line.
ToggleLineSameId(lines, task, id, idx) ==
  LET found == parseTodoMeta(lines[idx])
      meta == [id |-> IF found.id = 0 THEN id ELSE found.id,
               done |-> IF task.checked THEN 0 ELSE Today]
      toggled == toggleCheckbox(stripTodoMeta(lines[idx]) \o <<formatTodoMeta(meta)>>)
      newLine == <<Box(0)>> \o task.title
                   \o <<Date(calculateNextOccurrence(task.dueRaw, task.recurrence))>>
                   \o <<Rec(task.recurrence)>>
                   \o <<formatTodoMeta([id |-> meta.id, done |-> 0])>>
  IN IF ~task.checked /\ task.recurrence # 0 /\ task.dueRaw # 0
     THEN InsertAfter([lines EXCEPT ![idx] = toggled], idx, newLine)
     ELSE [lines EXCEPT ![idx] = toggled]

\* toggleTask's rewrite of the line at idx (lines 152-201).
ToggleLine(lines, task, id, idx) ==
  LET line == lines[idx]
      found == parseTodoMeta(line)
      meta0 == IF found.id = 0 THEN [id |-> id, done |-> 0] ELSE found
      id2 == IF found.id = 0 THEN id + 1 ELSE id
      isCompleting == ~task.checked
      meta == [meta0 EXCEPT !.done = IF isCompleting THEN Today ELSE 0]
      withMeta == stripTodoMeta(line) \o <<formatTodoMeta(meta)>>
      toggled == toggleCheckbox(withMeta)
      newLine == <<Box(0)>> \o task.title
                   \o <<Date(calculateNextOccurrence(task.dueRaw, task.recurrence))>>
                   \o <<Rec(task.recurrence)>>
                   \o <<formatTodoMeta([id |-> id2, done |-> 0])>>
  IN IF isCompleting /\ task.recurrence # 0 /\ task.dueRaw # 0
     THEN InsertAfter([lines EXCEPT ![idx] = toggled], idx, newLine)
     ELSE [lines EXCEPT ![idx] = toggled]

\* The body of toggleTask's queued operation on the content it read; id is
\* the next identifier generateId() returns.
ToggleContent(lines, task, id) ==
  At(LAMBDA idx : IF idx = 0 THEN lines ELSE ToggleLine(lines, task, id, idx),
     LocateLine(lines, task))

\* line.replace(oldCompact, newCompact): the first occurrence of the old date.
replaceDateInLine(line, oldDate, newDate) ==
  At(LAMBDA k : IF k = 0 THEN line ELSE [line EXCEPT ![k] = Date(newDate)],
     FirstIdx(line, LAMBDA tok : IsDate(tok) /\ tok.n = oldDate))

\* rescheduleTask, lines 248-262: the date replaced, or put before the
\* metadata comment, or appended.
WithNewDate(line, task, newDate) ==
  IF task.dueRaw # 0 THEN replaceDateInLine(line, task.dueRaw, newDate)
  ELSE At(LAMBDA mi :
            IF mi = 0 THEN line \o <<Date(newDate)>>
            ELSE SubSeq(line, 1, mi - 1) \o <<Date(newDate)>>
                   \o SubSeq(line, mi, Len(line)),
          FirstIdx(line, IsMeta))

\* rescheduleTask, lines 264-269: a stable identity for a line without one.
WithStableId(line, id) ==
  IF parseTodoMeta(line).id # 0 THEN line
  ELSE stripTodoMeta(line) \o <<formatTodoMeta([id |-> id, done |-> 0])>>

\* The body of rescheduleTask's queued operation on the content it read.
RescheduleContent(lines, task, newDate, id) ==
  At(LAMBDA idx :
       IF idx = 0 THEN lines
       ELSE [lines EXCEPT ![idx] = WithStableId(WithNewDate(@, task, newDate), id)],
     LocateLine(lines, task))

\* How many identifiers generateId() hands out while rescheduling.
RescheduleIdsUsed(lines, task, newDate) ==
  At(LAMBDA idx :
       IF idx = 0 THEN 0
       ELSE IF parseTodoMeta(WithNewDate(lines[idx], task, newDate)).id = 0 THEN 1 ELSE 0,
     LocateLine(lines, task))

\* content.trimEnd(): trailing empty lines go.
RECURSIVE TrimEnd(_)
TrimEnd(lines) ==
  IF Len(lines) > 0 /\ Len(lines[Len(lines)]) = 0
  THEN TrimEnd(SubSeq(lines, 1, Len(lines) - 1))
  ELSE lines

\* addTask's line (editor.ts 310-342) from the fields of t; 0 and <<>> stand
\* for an absent field.
ComposeTask(t) ==
  <<Box(0)>>
    \o (IF t.priority > 0 THEN <<Prio(t.priority)>> ELSE <<>>)
    \o t.title
    \o [k \in 1..Len(t.tags) |-> Tag(t.tags[k])]
    \o (IF t.project # 0 THEN <<Proj(t.project)>> ELSE <<>>)
    \o (IF t.dueRaw # 0 THEN <<Date(t.dueRaw)>> ELSE <<>>)
    \o (IF t.estimate # 0 THEN <<Est(t.estimate)>> ELSE <<>>)

\* The arguments of one addTask call.
NewTask(title, dueDate) ==
  [title |-> title, dueRaw |-> dueDate, priority |-> 0, tags |-> <<>>, project |-> 0,
   estimate |-> 0]

\* addTask's line: checkbox, title, due date (the other fields are absent).
ComposeLine(title, dueDate) == ComposeTask(NewTask(title, dueDate))

\* content.trimEnd() + "\n" + line + "\n"
AppendContent(lines, line) == TrimEnd(lines) \o <<line, <<>>>>

(***************************************************************************)
(* State.                                                                  *)
(***************************************************************************)
VARIABLES
  disk,          \* the vault: file object -> [exists, path, content, mtime]
  clock,         \* the modification time the next write stamps
  ops,           \* every mutation call made so far, in submission order
  queues,        \* FileWriteQueue.queues: path -> the tail operation, 0 = no entry
  nextId,        \* the next identifier generateId() returns
  ext,           \* addTaskToDestination on the active file: idle, or the content it read
  content0,      \* the content each file had when the mutations began
  phase,         \* onload: [st, next]; st is "start", "building" or "live" and
                 \* next the file the second pass of the build is at
  snapshot,      \* TaskIndexer.snapshot
  errors,        \* TaskIndexer.errors
  cache,         \* TaskIndexer.cache
  fileDebounce,  \* TaskIndexer.fileDebounce: path -> timer handle, 0 = no entry
  timers,        \* the pending timeouts: [h, file, path]
  handles,       \* how many timeout handles window.setTimeout has handed out
  runs,          \* the reindexFile calls that have read the file, oldest first
  events,        \* how many file events the vault has raised
  last,          \* what the last step did
  hist           \* per file: what the index last did with it

qvars == <<ops, queues, nextId, ext, content0>>
ivars == <<phase, snapshot, errors, cache, fileDebounce, timers, handles, runs,
           events, last, hist>>
vars == <<disk, clock, ops, queues, nextId, ext, content0,
          phase, snapshot, errors, cache, fileDebounce, timers, handles, runs,
          events, last, hist>>

Files == {1, 2}
Paths == {1, 2}

MaxOps == 3
MaxExt == 1
MaxIoFail == 1

\* workspace.getActiveFile()
ActiveFile == 1

NoFile == [exists |-> FALSE, path |-> 0, content |-> <<>>, mtime |-> 0]

\* vault.getAbstractFileByPath(path): the file object, 0 when there is none.
FileAt(d, p) ==
  IF \E f \in Files : d[f].exists /\ d[f].path = p
  THEN CHOOSE f \in Files : d[f].exists /\ d[f].path = p
  ELSE 0

\* vault.modify(file, content) on an existing file.
VaultModify(d, f, content, mtime) ==
  [d EXCEPT ![f] = [@ EXCEPT !.content = content, !.mtime = mtime]]

EmptySnapshot == [tasksByStableId |-> <<>>, tasksByEphemeralId |-> <<>>, fileToTaskIds |-> <<>>]

\* What the last step did to the index: the event or the outcome of a reindex,
\* the file and path it was about, the path a rename moved it to, the cache
\* entry the path had before, the content a reindex read, and whether that
\* content is the one the file's previous reindex read; for the steps of the
\* initial build, whether the build discarded the persisted cache.
NoLast ==
  [ev |-> "none", file |-> 0, path |-> 0, to |-> 0, had |-> FALSE, hash |-> <<>>,
   content |-> <<>>, repeat |-> FALSE, reset |-> FALSE,
   after |-> FALSE, wrote |-> <<>>, at |-> 0, read |-> FALSE, stamp |-> 0]

\* Per file: the content its last completed reindex read since it was last
\* fully parsed (seen), and whether a conversion it wrote back is still to be
\* parsed (pending).
NoHist == [seen |-> FALSE, content |-> <<>>, pending |-> FALSE]

(***************************************************************************)
(* writeQueue.ts and editor.ts: the mutations.                             *)
(* An entry of ops is one call of toggleTask or addTask:                   *)
(*   st   "nofile"  the path resolved to no file, nothing was enqueued     *)
(*        "queued"  chained behind prev, not started                       *)
(*        "read"    started, vault.read has returned buf                   *)
(*        "settled" the operation's promise has settled, with res          *)
(***************************************************************************)
NoTask ==
  [stableId |-> 0, ephemeralId |-> <<>>, filePath |-> 0, checked |-> FALSE,
   title |-> <<>>, dueRaw |-> 0, completedDate |-> 0, recurrence |-> 0,
   lineNoHint |-> 0, rawLine |-> <<>>]

QueueContents ==
  { << <<Box(0), W(1)>> >>,
    << <<Box(0), W(1), Meta(1, 0)>> >>,
    << <<Box(0), W(1), Date(1), Rec(1)>> >>,
    << <<Box(0), W(1)>>, <<Box(0), W(1)>> >>,
    << <<W(3)>>, <<Box(1), W(1), Meta(1, 5)>> >> }

FirstFreshId == 2

\* The dates rescheduleTask is called with.
NewDates == {1, 2}

NewTitle == <<W(4)>>

Settled(i) == ops[i].st = "settled"

Enqueued(i) == ops[i].st # "nofile"

\* A queue that starts the operation at once, without chaining it.
CanStartUnchained(i) == ops[i].st = "queued"

\* A queue that chains with prev.then(op): a rejected prev blocks what follows.
CanStartAfterSuccess(i) ==
  /\ ops[i].st = "queued"
  /\ (IF ops[i].prev = 0 THEN TRUE
      ELSE Settled(ops[i].prev) /\ ops[ops[i].prev].res = "ok")

\* A queue that runs the operations of all the paths one after the other.
CanStartInTurn(i) ==
  /\ ops[i].st = "queued"
  /\ \A j \in 1..(i - 1) : ops[j].st \in {"settled", "nofile"}

\* prev.then(op, op): op runs once prev has settled, fulfilled or rejected.
CanStart(i) ==
  /\ ops[i].st = "queued"
  /\ (IF ops[i].prev = 0 THEN TRUE ELSE Settled(ops[i].prev))

\* The records the views hold: the parse of the content the mutations began on.
UiTasks(p) ==
  At(LAMBDA f :
       IF f = 0 THEN {}
       ELSE At(LAMBDA ts : {ts[k] : k \in 1..Len(ts)}, ParseTasks(p, content0[f])),
     FileAt(disk, p))

NewOp(p, f, kind, task, st) ==
  [path |-> p, file |-> f, kind |-> kind, task |-> task, date |-> 0, prev |-> queues[p],
   st |-> st, buf |-> <<>>, res |-> IF st = "nofile" THEN "err" ELSE "none",
   ioFail |-> FALSE, wrote |-> FALSE]

\* A mutation that takes its place in the queue of the path whether or not
\* the path resolves to a file.
MutateOnAnyPath(p, kind, task, date) ==
  /\ Len(ops) < MaxOps
  /\ \E f \in {FileAt(disk, p)} :
       ops' = Append(ops, [NewOp(p, f, kind, task, IF f = 0 THEN "nofile" ELSE "queued")
                             EXCEPT !.date = date])
  /\ queues' = [queues EXCEPT ![p] = Len(ops) + 1]
  /\ UNCHANGED <<disk, clock, nextId, ext, content0>>
  /\ UNCHANGED ivars

\* A mutation up to its first await: the file lookup, then
\* FileWriteQueue.enqueue, which chains the operation and sets the tail.
MutateOn(p, kind, task, date) ==
  /\ Len(ops) < MaxOps
  /\ \E f \in {FileAt(disk, p)} :
       IF f = 0
       THEN /\ ops' = Append(ops, [NewOp(p, 0, kind, task, "nofile") EXCEPT !.date = date])
            /\ UNCHANGED queues
       ELSE /\ ops' = Append(ops, [NewOp(p, f, kind, task, "queued") EXCEPT !.date = date])
            /\ queues' = [queues EXCEPT ![p] = Len(ops) + 1]
  /\ UNCHANGED <<disk, clock, nextId, ext, content0>>
  /\ UNCHANGED ivars

Mutate(p, kind, task) == MutateOn(p, kind, task, 0)

toggleTask(p, task) == Mutate(p, "toggle", task)

addTask(p) == Mutate(p, "add", NewTask(NewTitle, 0))

rescheduleTask(p, task, newDate) == MutateOn(p, "reschedule", task, newDate)

\* A finally block that deletes the key whatever the tail is.
CleanupAlways(q, i) == [q EXCEPT ![ops[i].path] = 0]

\* The finally block of enqueue: delete the key if this is still the tail.
Cleanup(q, i) == IF q[ops[i].path] = i THEN [q EXCEPT ![ops[i].path] = 0] ELSE q

\* A settling that lets the failure of the read or the write escape the call.
SettleRaising(o, i, res, ioFail, wrote) ==
  [o EXCEPT ![i] = [@ EXCEPT !.st = "settled",
                             !.res = IF res = "err" THEN "raised" ELSE res,
                             !.ioFail = ioFail, !.wrote = wrote]]

Settle(o, i, res, ioFail, wrote) ==
  [o EXCEPT ![i] = [@ EXCEPT !.st = "settled", !.res = res,
                             !.ioFail = ioFail, !.wrote = wrote]]

\* The operation starts and vault.read returns the file's content.
OpRead(i) ==
  /\ i \in 1..Len(ops)
  /\ CanStart(i)
  /\ disk[ops[i].file].exists
  /\ ops' = [ops EXCEPT ![i] = [@ EXCEPT !.st = "read", !.buf = disk[ops[i].file].content]]
  /\ UNCHANGED <<disk, clock, queues, nextId, ext, content0>>
  /\ UNCHANGED ivars

IoFails == Cardinality({i \in 1..Len(ops) : ops[i].ioFail})

\* The operation starts and vault.read throws.
OpReadFails(i) ==
  /\ i \in 1..Len(ops)
  /\ CanStart(i)
  /\ IoFails < MaxIoFail
  /\ ops' = Settle(ops, i, "err", TRUE, FALSE)
  /\ queues' = Cleanup(queues, i)
  /\ UNCHANGED <<disk, clock, nextId, ext, content0>>
  /\ UNCHANGED ivars

\* What the operation makes of the content it read.
OpContent(i) ==
  IF ops[i].kind = "toggle" THEN ToggleContent(ops[i].buf, ops[i].task, nextId)
  ELSE IF ops[i].kind = "reschedule"
  THEN RescheduleContent(ops[i].buf, ops[i].task, ops[i].date, nextId)
  ELSE AppendContent(ops[i].buf, ComposeTask(ops[i].task))

\* A mutation that writes whatever it has made of the content.
OpWritesAlways(i) == ops[i].kind \in {"toggle", "reschedule", "add"}

\* toggleTask and rescheduleTask write only if (newContent !== content);
\* addTask always writes.
OpWrites(i) == ops[i].kind = "add" \/ OpContent(i) # ops[i].buf

OpIdsUsed(i) ==
  IF ops[i].kind = "toggle" THEN ToggleIdsUsed(ops[i].buf, ops[i].task)
  ELSE IF ops[i].kind = "reschedule"
  THEN RescheduleIdsUsed(ops[i].buf, ops[i].task, ops[i].date)
  ELSE 0

\* The rest of the operation: the rewrite, vault.modify, and the settling of
\* the promise enqueue awaits (with its cleanup).
OpWrite(i) ==
  /\ i \in 1..Len(ops)
  /\ ops[i].st = "read"
  /\ IF OpWrites(i)
     THEN /\ disk' = VaultModify(disk, ops[i].file, OpContent(i), clock)
          /\ clock' = clock + 1
     ELSE UNCHANGED <<disk, clock>>
  /\ nextId' = nextId + OpIdsUsed(i)
  /\ ops' = Settle(ops, i, "ok", FALSE, OpWrites(i))
  /\ queues' = Cleanup(queues, i)
  /\ UNCHANGED <<ext, content0>>
  /\ UNCHANGED ivars

\* vault.modify throws.
OpWriteFails(i) ==
  /\ i \in 1..Len(ops)
  /\ ops[i].st = "read"
  /\ OpWrites(i)
  /\ IoFails < MaxIoFail
  /\ nextId' = nextId + OpIdsUsed(i)
  /\ ops' = Settle(ops, i, "err", TRUE, FALSE)
  /\ queues' = Cleanup(queues, i)
  /\ UNCHANGED <<disk, clock, ext, content0>>
  /\ UNCHANGED ivars

\* main.ts addTaskToDestination, line 460: vault.read, outside the queue.
AddToDestinationRead ==
  /\ disk[ActiveFile].exists
  /\ ext.st = "idle"
  /\ ext.left > 0
  /\ ext' = [st |-> "read", buf |-> disk[ActiveFile].content, left |-> ext.left - 1]
  /\ UNCHANGED <<disk, clock, ops, queues, nextId, content0>>
  /\ UNCHANGED ivars

\* main.ts addTaskToDestination, line 461: vault.modify of what it read.
AddToDestinationWrite ==
  /\ ext.st = "read"
  /\ disk' = VaultModify(disk, ActiveFile,
                          AppendContent(ext.buf, ComposeLine(NewTitle, 0)), clock)
  /\ clock' = clock + 1
  /\ ext' = [ext EXCEPT !.st = "idle", !.buf = <<>>]
  /\ UNCHANGED <<ops, queues, nextId, content0>>
  /\ UNCHANGED ivars

\* The indexer as constructed, before onload has built anything.
IndexFresh ==
  /\ phase = [st |-> "start", next |-> 0]
  /\ snapshot = EmptySnapshot
  /\ errors = <<>>
  /\ fileDebounce = [p \in Paths |-> 0]
  /\ timers = {}
  /\ handles = 0
  /\ runs = <<>>
  /\ events = 0
  /\ last = NoLast
  /\ hist = [f \in Files |-> NoHist]

IndexIdle ==
  /\ IndexFresh
  /\ cache = [v |-> 0, files |-> <<>>]

InitQueue ==
  /\ \E c \in QueueContents, e \in BOOLEAN :
       disk = [f \in Files |->
                 IF f = 1 THEN [exists |-> TRUE, path |-> 1, content |-> c, mtime |-> 1]
                 ELSE IF e THEN [exists |-> TRUE, path |-> 2,
                                 content |-> << <<W(2)>> >>, mtime |-> 1]
                 ELSE NoFile]
  /\ clock = 2
  /\ ops = <<>>
  /\ queues = [p \in Paths |-> 0]
  /\ nextId = FirstFreshId
  /\ ext = [st |-> "idle", buf |-> <<>>, left |-> MaxExt]
  /\ content0 = [f \in Files |-> disk[f].content]
  /\ IndexIdle

NextQueue ==
  \/ \E p \in Paths : \E t \in UiTasks(p) : toggleTask(p, t)
  \/ \E p \in Paths : addTask(p)
  \/ \E i \in 1..MaxOps : OpRead(i)
  \/ \E i \in 1..MaxOps : OpReadFails(i)
  \/ \E i \in 1..MaxOps : OpWrite(i)
  \/ \E i \in 1..MaxOps : OpWriteFails(i)
  \/ AddToDestinationRead
  \/ AddToDestinationWrite

SpecQueue == InitQueue /\ [][NextQueue]_vars

(***************************************************************************)
(* One addTask call with any of the fields, on a file of one line.         *)
(***************************************************************************)
MaxTags == 2

\* The calls: titles of one or two plain words, and titles that hold a word
\* the parser reads ("todo" in front, a date phrase at the end), with and
\* without each of the other fields.
NewTasks ==
  {[title |-> ti, dueRaw |-> du, priority |-> pr, tags |-> ta, project |-> pj,
    estimate |-> es] :
     ti \in {<<W(1)>>, <<W(1), W(2)>>, <<Todo, W(1)>>, <<W(1), Date(2)>>}, du \in {0, 1}, pr \in 0..3,
     ta \in UNION {[1..n -> {1, 2}] : n \in 0..MaxTags}, pj \in {0, 1}, es \in {0, 1}}

\* TaskEditor.addTask(filePath, title, dueDate, options) up to its first await.
addTaskWith(p, t) == ops = <<>> /\ Mutate(p, "add", t)

InitCompose ==
  /\ disk = [f \in Files |->
               IF f = 1 THEN [exists |-> TRUE, path |-> 1,
                              content |-> << <<W(3)>>, <<>> >>, mtime |-> 1]
               ELSE NoFile]
  /\ clock = 2
  /\ ops = <<>>
  /\ queues = [p \in Paths |-> 0]
  /\ nextId = FirstFreshId
  /\ ext = [st |-> "idle", buf |-> <<>>, left |-> MaxExt]
  /\ content0 = [f \in Files |-> disk[f].content]
  /\ IndexIdle

NextCompose ==
  \/ \E t \in NewTasks : addTaskWith(1, t)
  \/ \E i \in 1..MaxOps : OpRead(i)
  \/ \E i \in 1..MaxOps : OpWrite(i)

SpecCompose == InitCompose /\ [][NextCompose]_vars

(***************************************************************************)
(* addTask called several times in a row for one file, before any of the   *)
(* calls has started its operation.                                        *)
(***************************************************************************)
\* The file ends with text, with one newline or with blank lines.
AppendContents ==
  { << <<W(3)>> >>, << <<W(3)>>, <<>> >>, << <<Box(0), W(3)>>, <<>>, <<>> >>,
    << <<W(3)>>, <<Box(1), W(1)>> >> }

AppendTitles == {<<W(1)>>, <<W(2)>>}

\* One more addTask call while every operation enqueued so far is still
\* waiting to start.
addTaskInARow(title) ==
  /\ \A i \in 1..Len(ops) : ops[i].st = "queued"
  /\ Mutate(1, "add", NewTask(title, 0))

InitAppend ==
  /\ \E c \in AppendContents :
       disk = [f \in Files |->
                 IF f = 1 THEN [exists |-> TRUE, path |-> 1, content |-> c, mtime |-> 1]
                 ELSE NoFile]
  /\ clock = 2
  /\ ops = <<>>
  /\ queues = [p \in Paths |-> 0]
  /\ nextId = FirstFreshId
  /\ ext = [st |-> "idle", buf |-> <<>>, left |-> MaxExt]
  /\ content0 = [f \in Files |-> disk[f].content]
  /\ IndexIdle

NextAppend ==
  \/ \E title \in AppendTitles : addTaskInARow(title)
  \/ \E i \in 1..MaxOps : OpRead(i)
  \/ \E i \in 1..MaxOps : OpWrite(i)

SpecAppend == InitAppend /\ [][NextAppend]_vars

(***************************************************************************)
(* The date arithmetic: calculateNextOccurrence of editor.ts for the rule  *)
(* "every N months", on calendar dates [y, m, d], and getNextDayOfWeek of  *)
(* the date parser, on day numbers (day n is weekday n % 7, 0 a Sunday).   *)
(* An entry of ops is here one call, with its arguments and its result.    *)
(***************************************************************************)
MaxInterval == 2

IsLeap(y) == (y % 4 = 0 /\ y % 100 # 0) \/ y % 400 = 0

DaysIn(y, m) ==
  IF m = 2 THEN (IF IsLeap(y) THEN 29 ELSE 28)
  ELSE IF m \in {4, 6, 9, 11} THEN 30 ELSE 31

\* Date.prototype.setMonth(getMonth() + k): the month is carried into the
\* year, and a day that the month does not have runs on into the next month.
setMonth(date, k) ==
  LET idx == (date.m - 1) + k
      y == date.y + (idx \div 12)
      m == (idx % 12) + 1
  IN IF date.d <= DaysIn(y, m) THEN [y |-> y, m |-> m, d |-> date.d]
     ELSE IF m = 12 THEN [y |-> y + 1, m |-> 1, d |-> date.d - DaysIn(y, m)]
     ELSE [y |-> y, m |-> m + 1, d |-> date.d - DaysIn(y, m)]

\* calculateNextOccurrence, case "month" (lines 66-68).
calculateNextMonthly(date, interval) == setMonth(date, interval)

\* A scan that starts at the due date itself.
calculateNextCustomFromDue(day, daysOfWeek) ==
  LET hits == {i \in 0..6 : (((day % 7) + i) % 7) \in daysOfWeek}
  IN IF hits = {} THEN day ELSE day + (CHOOSE i \in hits : \A j \in hits : i <= j)

\* calculateNextOccurrence, case "custom" (lines 79-91), on day numbers: the
\* first i of 1..7 with (startDay + i) % 7 in daysOfWeek is added to the date.
calculateNextCustom(day, daysOfWeek) ==
  LET startDay == day % 7
      hits == {i \in 1..7 : ((startDay + i) % 7) \in daysOfWeek}
  IN IF daysOfWeek # {} /\ hits # {}
     THEN day + (CHOOSE i \in hits : \A j \in hits : i <= j)
     ELSE day

\* getNextDayOfWeek (part_004 248-271) with today the day number today.
getNextDayOfWeek(today, targetDow, forceNext) ==
  LET daysAhead == targetDow - (today % 7)
      wrapped == IF daysAhead <= 0 THEN daysAhead + 7 ELSE daysAhead
      skipped == (wrapped + 7) - 7
  IN IF forceNext
     THEN today + (IF skipped <= 0 THEN skipped + 7 ELSE skipped)
     ELSE today + wrapped

\* getEndOfWeek (part_004 238-242): the Sunday that ends the week of the day.
getEndOfWeek(day) ==
  LET daysUntilSunday == 7 - (day % 7)
  IN day + (IF daysUntilSunday = 7 THEN 0 ELSE daysUntilSunday)

\* The due dates: the last days of every month of a leap and a common year.
ValidDates ==
  {date \in {[y |-> y, m |-> m, d |-> d] : y \in {2024, 2026}, m \in 1..12, d \in 28..31} :
     date.d <= DaysIn(date.y, date.m)}

\* A recurring task due on date is completed.
CallNextMonthly(date, interval) ==
  /\ ops = <<>>
  /\ ops' = <<[kind |-> "month", date |-> date, interval |-> interval,
               res |-> calculateNextMonthly(date, interval)]>>
  /\ UNCHANGED <<disk, clock, queues, nextId, ext, content0>>
  /\ UNCHANGED ivars

\* parseNaturalDate meets "next <weekday>" (forceNext) or "<weekday>".
CallNextDayOfWeek(targetDow, forceNext) ==
  /\ ops = <<>>
  /\ ops' = <<[kind |-> "weekday", target |-> targetDow, forceNext |-> forceNext,
               res |-> getNextDayOfWeek(clock, targetDow, forceNext)]>>
  /\ UNCHANGED <<disk, clock, queues, nextId, ext, content0>>
  /\ UNCHANGED ivars

\* A task due on day with the rule "every <weekdays>" is completed.
CallNextCustom(day, daysOfWeek) ==
  /\ ops = <<>>
  /\ ops' = <<[kind |-> "custom", date |-> day, days |-> daysOfWeek,
               res |-> calculateNextCustom(day, daysOfWeek)]>>
  /\ UNCHANGED <<disk, clock, queues, nextId, ext, content0>>
  /\ UNCHANGED ivars

\* Today is any day of one week.
InitDates ==
  /\ clock \in 0..6
  /\ disk = [f \in Files |-> NoFile]
  /\ ops = <<>>
  /\ queues = [p \in Paths |-> 0]
  /\ nextId = FirstFreshId
  /\ ext = [st |-> "idle", buf |-> <<>>, left |-> MaxExt]
  /\ content0 = [f \in Files |-> <<>>]
  /\ IndexIdle

NextDates ==
  \/ \E date \in ValidDates : \E k \in 1..MaxInterval : CallNextMonthly(date, k)
  \/ \E dow \in 0..6 : \E force \in BOOLEAN : CallNextDayOfWeek(dow, force)
  \/ \E day \in 0..6 : \E days \in SUBSET (0..6) : CallNextCustom(day, days)

SpecDates == InitDates /\ [][NextDates]_vars

\* The key whose operations may hang in their I/O for ever, and another key.
KeyA == 1
KeyB == 2

\* A step of operation i if it is of key B: the microtask that starts it once
\* its predecessor has settled, or the completion of its vault.modify.
OtherKeyStep(i) ==
  \/ OpRead(i) /\ ops[i].path = KeyB
  \/ OpWrite(i) /\ ops[i].path = KeyB

\* The mutations where the I/O of key B's operations completes and that of
\* key A's operations need not.
InitStall ==
  /\ disk = [f \in Files |-> [exists |-> TRUE, path |-> f,
                               content |-> << <<Box(0), W(1)>> >>, mtime |-> 1]]
  /\ clock = 2
  /\ ops = <<>>
  /\ queues = [p \in Paths |-> 0]
  /\ nextId = FirstFreshId
  /\ ext = [st |-> "idle", buf |-> <<>>, left |-> MaxExt]
  /\ content0 = [f \in Files |-> disk[f].content]
  /\ IndexIdle

SpecStall ==
  InitStall /\ [][NextQueue]_vars /\ \A i \in 1..MaxOps : WF_vars(OtherKeyStep(i))

(***************************************************************************)
(* The three mutations of TaskEditor on one file that can go away between  *)
(* two calls, while the views still hold its records.                      *)
(***************************************************************************)
\* The records the views hold for path p, also after the file has gone.
HeldTasks(p) ==
  UNION {At(LAMBDA ts : {ts[k] : k \in 1..Len(ts)}, ParseTasks(p, content0[f])) :
           f \in {g \in Files : disk[g].path = p}}

\* The file is deleted while no mutation of it is under way.
Unlink(f) ==
  /\ disk[f].exists
  /\ \A i \in 1..Len(ops) : ops[i].file = f => Settled(i)
  /\ disk' = [disk EXCEPT ![f] = [@ EXCEPT !.exists = FALSE]]
  /\ UNCHANGED <<clock, ops, queues, nextId, ext, content0>>
  /\ UNCHANGED ivars

\* The contents the file starts with: those above, and a task line to whose
\* end, after the metadata comment, the user has typed a word.
EditContents == QueueContents \cup { << <<Box(0), W(1), Meta(1, 0), W(2)>> >> }

InitEdit ==
  /\ \E c \in EditContents :
       disk = [f \in Files |->
                 IF f = 1 THEN [exists |-> TRUE, path |-> 1, content |-> c, mtime |-> 1]
                 ELSE NoFile]
  /\ clock = 2
  /\ ops = <<>>
  /\ queues = [p \in Paths |-> 0]
  /\ nextId = FirstFreshId
  /\ ext = [st |-> "idle", buf |-> <<>>, left |-> MaxExt]
  /\ content0 = [f \in Files |-> disk[f].content]
  /\ IndexIdle

NextEdit ==
  \/ \E t \in HeldTasks(1) : toggleTask(1, t)
  \/ \E t \in HeldTasks(1) : \E d \in NewDates : rescheduleTask(1, t, d)
  \/ addTask(1)
  \/ \E i \in 1..MaxOps : OpRead(i)
  \/ \E i \in 1..MaxOps : OpReadFails(i)
  \/ \E i \in 1..MaxOps : OpWrite(i)
  \/ \E i \in 1..MaxOps : OpWriteFails(i)
  \/ Unlink(1)

SpecEdit == InitEdit /\ [][NextEdit]_vars

(***************************************************************************)
(* Claims about the write queue and the mutations (under SpecQueue).       *)
(***************************************************************************)
Started(i) == ops[i].st \in {"read", "settled"}

OpsOn(p) == {i \in 1..Len(ops) : ops[i].path = p /\ Enqueued(i)}

\* C1: for one key the operations start in submission order, and none starts
\* before the operation submitted before it for that key has settled.
C1_SerialPerKey ==
  \A p \in Paths : \A i, j \in OpsOn(p) : (i < j /\ Started(j)) => Settled(i)

\* Three operations of one key, chained while the first had not settled: two
\* have settled and the third is running.
C1_Witness ==
  /\ Len(ops) = 3
  /\ \A i \in 1..3 : ops[i].path = 1 /\ ops[i].prev = i - 1
  /\ Settled(1) /\ Settled(2) /\ ops[3].st = "read"

\* The read-modify-writes of file f that have read and not yet written.
QueuedInFlight(f) == {i \in 1..Len(ops) : ops[i].st = "read" /\ ops[i].file = f}

ExtInFlight(f) == f = ActiveFile /\ ext.st = "read"

\* C2: at most one read-modify-write per file is in flight, and none of them
\* holds content that another write has since replaced.
C2_OneRmwPerFile ==
  \A f \in Files :
    /\ Cardinality(QueuedInFlight(f)) + (IF ExtInFlight(f) THEN 1 ELSE 0) <= 1
    /\ \A i \in QueuedInFlight(f) : ops[i].buf = disk[f].content
    /\ ExtInFlight(f) => ext.buf = disk[f].content

IsChecked(line) == Len(line) > 0 /\ IsBox(line[1]) /\ line[1].n # 0

Odd(n) == n % 2 = 1

\* The checked state a line that started as c has after n flips.
AfterFlips(c, n) == IF Odd(n) THEN ~c ELSE c

\* Every call so far is toggleTask(t) on path p, nothing else wrote the file
\* and no read or write failed.
OnlyTogglesOf(p, t) ==
  /\ Len(ops) > 0
  /\ \A i \in 1..Len(ops) :
       ops[i].kind = "toggle" /\ ops[i].task = t /\ ops[i].path = p /\ Enqueued(i)
  /\ ext.st = "idle" /\ ext.left = MaxExt
  /\ IoFails = 0

\* C3: N toggles of one task: the k-th operation reads the line as k-1 flips
\* left it, and once all have settled the line has been flipped N times.
C3_AllFlipsApplied ==
  \A p \in Paths : \A t \in UiTasks(p) :
    OnlyTogglesOf(p, t) =>
      LET f == FileAt(disk, p)
          i0 == LocateLine(content0[f], t)
          c0 == IsChecked(content0[f][i0])
      IN /\ \A k \in 1..Len(ops) :
              Started(k) => IsChecked(ops[k].buf[i0]) = AfterFlips(c0, k - 1)
         /\ (\A k \in 1..Len(ops) : Settled(k)) =>
              IsChecked(disk[f].content[i0]) = AfterFlips(c0, Len(ops))

\* Three toggles of one task, each chained behind the one before it, have all
\* settled.
C3_Witness ==
  /\ Len(ops) = 3
  /\ \E t \in UiTasks(1) : OnlyTogglesOf(1, t)
  /\ \A i \in 1..3 : ops[i].prev = i - 1 /\ Settled(i) /\ ops[i].wrote

\* C4: a failed operation does not jam its key: while operations of a key are
\* queued and none is running, one of them can start; and an operation reports
\* a failure only if its own read or write failed.
C4_FailureDoesNotJam ==
  /\ \A p \in Paths :
       ((\E j \in OpsOn(p) : ops[j].st = "queued")
          /\ (\A j \in OpsOn(p) : ops[j].st # "read"))
       => \E j \in OpsOn(p) : CanStart(j)
  /\ \A j \in 1..Len(ops) : (Enqueued(j) /\ ops[j].res = "err") => ops[j].ioFail

\* An operation failed and one chained behind it has written its update.
C4_Witness ==
  \E i, j \in 1..Len(ops) :
    /\ ops[j].prev = i
    /\ ops[i].res = "err"
    /\ ops[j].res = "ok" /\ ops[j].wrote

(***************************************************************************)
(* The indexer (TaskIndexer).  The maps of the snapshot and the files of   *)
(* the cache are functions; a key is absent when it is outside the domain. *)
(* The index proper is a record ix = [snapshot, errors, cache].            *)
(***************************************************************************)
CACHE_VERSION == 1

MapPut(m, k, v) == [x \in (DOMAIN m) \cup {k} |-> IF x = k THEN v ELSE m[x]]

MapCut(m, K) == [x \in (DOMAIN m) \ K |-> m[x]]

DuplicateError(task) ==
  [filePath |-> task.filePath, lineNo |-> task.lineNoHint, line |-> task.rawLine,
   reason |-> "Duplicate stable id"]

\* An addTask that lets the later record take the stable identity.
indexAddTaskOverwrites(ix, task) ==
  LET snap == ix.snapshot
      fileSet == IF task.filePath \in DOMAIN snap.fileToTaskIds
                 THEN snap.fileToTaskIds[task.filePath] ELSE {}
      key == IF task.stableId # 0 THEN StableKey(task.stableId) ELSE task.ephemeralId
  IN [ix EXCEPT
        !.snapshot =
          [snap EXCEPT
             !.tasksByStableId =
               IF task.stableId # 0 THEN MapPut(@, key, task) ELSE @,
             !.tasksByEphemeralId =
               IF task.stableId = 0 THEN MapPut(@, key, task) ELSE @,
             !.fileToTaskIds = MapPut(@, task.filePath, fileSet \cup {key})]]

\* TaskIndexer.addTask
indexAddTask(ix, task) ==
  LET snap == ix.snapshot
      fileSet == IF task.filePath \in DOMAIN snap.fileToTaskIds
                 THEN snap.fileToTaskIds[task.filePath] ELSE {}
      stable == StableKey(task.stableId)
      viaEphemeral ==
        [snap EXCEPT
           !.tasksByEphemeralId = MapPut(@, task.ephemeralId, task),
           !.fileToTaskIds = MapPut(@, task.filePath, fileSet \cup {task.ephemeralId})]
      viaStable ==
        [snap EXCEPT
           !.tasksByStableId = MapPut(@, stable, task),
           !.fileToTaskIds = MapPut(@, task.filePath, fileSet \cup {stable})]
  IN IF task.stableId # 0
     THEN IF stable \notin DOMAIN snap.tasksByStableId
          THEN [ix EXCEPT !.snapshot = viaStable]
          ELSE [ix EXCEPT !.snapshot = viaEphemeral,
                          !.errors = Append(@, DuplicateError(task))]
     ELSE [ix EXCEPT !.snapshot = viaEphemeral]

\* for (const t of tasks) this.addTask(t)
RECURSIVE AddTasks(_, _)
AddTasks(ix, tasks) ==
  IF tasks = <<>> THEN ix
  ELSE At(LAMBDA next : AddTasks(next, Tail(tasks)), indexAddTask(ix, Head(tasks)))

\* A removeFile that leaves the file's records where they are.
removeFileKeepsRecords(ix, path) ==
  [ix EXCEPT !.errors = SelectSeq(@, LAMBDA e : e.filePath # path),
             !.cache.files = MapCut(@, {path})]

\* TaskIndexer.removeFile: nothing at all happens when the path owns no ids.
removeFile(ix, path) ==
  IF path \notin DOMAIN ix.snapshot.fileToTaskIds THEN ix
  ELSE LET ids == ix.snapshot.fileToTaskIds[path]
       IN [snapshot |->
             [tasksByStableId |-> MapCut(ix.snapshot.tasksByStableId, ids),
              tasksByEphemeralId |-> MapCut(ix.snapshot.tasksByEphemeralId, ids),
              fileToTaskIds |-> MapCut(ix.snapshot.fileToTaskIds, {path})],
           errors |-> SelectSeq(ix.errors, LAMBDA e : e.filePath # path),
           cache |-> [ix.cache EXCEPT !.files = MapCut(@, {path})]]

\* TaskIndexer.applyCachedFile; cached is the entry object the caller holds.
applyCachedFile(ix, cached) ==
  At(LAMBDA cleared :
       At(LAMBDA tasks :
            [AddTasks(cleared, tasks) EXCEPT !.errors = @ \o cached.errors],
          [k \in 1..Len(cached.tasks) |->
             [cached.tasks[k] EXCEPT !.filePath = cached.path]]),
     removeFile(ix, cached.path))

\* TaskIndexer.handleRename
handleRename(ix, oldPath, newPath) ==
  At(LAMBDA dropped :
       IF oldPath \in DOMAIN dropped.cache.files
       THEN [dropped EXCEPT !.cache.files =
               MapCut(MapPut(@, newPath, [@[oldPath] EXCEPT !.path = newPath]),
                      {oldPath})]
       ELSE dropped,
     removeFile(ix, oldPath))

\* The entry reindexFileInternal stores after a full parse (lines 440-469).
CacheEntry(path, mtime, content) ==
  [path |-> path, mtime |-> mtime, contentHash |-> fnv1a32(ContentCodes(content)),
   tasks |-> ParseTasks(path, content), errors |-> ParseErrors(path, content)]

\* reindexFileInternal from the return of loadFileTextHash on: path and mtime
\* are file.path and file.stat.mtime as they are then, content is what was
\* read.  The result says how the call went and, for a write-back, what
\* content it hands to vault.modify.
\* The cache hit (lines 349-354): the entry takes the file's modification time
\* and is applied.
Hydrate(ix, path, mtime) ==
  At(LAMBDA cached :
       applyCachedFile([ix EXCEPT !.cache.files = MapPut(@, path, cached)], cached),
     [ix.cache.files[path] EXCEPT !.mtime = mtime])

\* The full parse (lines 380-469) into the index cleared of the file: the
\* tasks, the errors, the cache entry.
FullParse(cleared, path, mtime, content, hash) ==
  At(LAMBDA tasks :
       At(LAMBDA fileErrors :
            [AddTasks(cleared, tasks) EXCEPT
               !.errors = @ \o fileErrors,
               !.cache.files =
                 MapPut(@, path, [path |-> path, mtime |-> mtime, contentHash |-> hash,
                                  tasks |-> tasks, errors |-> fileErrors])],
          ParseErrors(path, content)),
     ParseTasks(path, content))

reindexFileInternal(ix, path, mtime, content) ==
  At(LAMBDA hash :
       IF path \in DOMAIN ix.cache.files /\ ix.cache.files[path].contentHash = hash
       THEN [how |-> "hydrate", ix |-> Hydrate(ix, path, mtime), content |-> content]
       ELSE At(LAMBDA lines :
                 IF lines # content
                 THEN [how |-> "rewrite", ix |-> removeFile(ix, path), content |-> lines]
                 ELSE [how |-> "parse",
                       ix |-> At(LAMBDA cleared :
                                   FullParse(cleared, path, mtime, content, hash),
                                 removeFile(ix, path)),
                       content |-> content],
               NormalizeLines(content)),
     fnv1a32(ContentCodes(content)))

(***************************************************************************)
(* The indexer's life: onload builds the index, then attaches the          *)
(* listeners; from then on the vault raises file events.                   *)
(***************************************************************************)
MaxEvents == 2

Ix == [snapshot |-> snapshot, errors |-> errors, cache |-> cache]

SetIx(ix) ==
  \E new \in {ix} :
    /\ snapshot' = new.snapshot
    /\ errors' = new.errors
    /\ cache' = new.cache

IndexContents ==
  { << <<Box(0), W(1), Meta(1, 0)>> >>,
    << <<Box(0), W(1)>> >>,
    << <<Todo, W(1)>> >>,
    << <<Box(0)>> >>,
    << <<Box(0), W(1), Meta(1, 0)>>, <<Todo, W(2)>> >> }

OtherContent == << <<Box(0), W(2)>> >>

\* What an earlier session can have saved for path 1 when the file now holds c
\* with modification time 1: nothing, or an entry of a full parse: of c at that
\* time, of c before a touch, or of other content; the first also under a
\* version tag that is not the current one.  For a file to which a shorthand
\* line has been typed since, the entry of the checkbox lines it held before.
PersistedCaches(c) ==
  LET entries == {CacheEntry(1, 0, OtherContent)}
                   \cup (IF NormalizeLines(c) = c
                         THEN {CacheEntry(1, 1, c), CacheEntry(1, 0, c)}
                         ELSE {CacheEntry(1, 0, NormalizeLines(c))})
      saved(v, e) == [v |-> v, files |-> (1 :> e)]
  IN {[v |-> 0, files |-> <<>>]}
       \cup {saved(CACHE_VERSION, e) : e \in entries}
       \cup (IF NormalizeLines(c) = c
             THEN {saved(CACHE_VERSION + 1, CacheEntry(1, 1, c))} ELSE {})

InitIndex ==
  /\ \E c \in IndexContents, e \in BOOLEAN :
       /\ disk = [f \in Files |->
                    IF f = 1 THEN [exists |-> TRUE, path |-> 1, content |-> c, mtime |-> 1]
                    ELSE IF e THEN [exists |-> TRUE, path |-> 2,
                                    content |-> OtherContent, mtime |-> 1]
                    ELSE NoFile]
       /\ cache \in PersistedCaches(c)
  /\ clock = 2
  /\ ops = <<>>
  /\ queues = [p \in Paths |-> 0]
  /\ nextId = FirstFreshId
  /\ ext = [st |-> "idle", buf |-> <<>>, left |-> MaxExt]
  /\ content0 = [f \in Files |-> disk[f].content]
  /\ IndexFresh

\* cached && cached.mtime === f.stat.mtime
MtimeFresh(c, d, f) ==
  /\ d[f].path \in DOMAIN c.files
  /\ c.files[d[f].path].mtime = d[f].mtime

\* The first pass of buildInitialIndex over the files from file f on.
RECURSIVE FirstPass(_, _)
FirstPass(ix, f) ==
  IF f \notin Files THEN ix
  ELSE IF disk[f].exists /\ MtimeFresh(ix.cache, disk, f)
  THEN At(LAMBDA next : FirstPass(next, f + 1),
          applyCachedFile(ix, ix.cache.files[disk[f].path]))
  ELSE FirstPass(ix, f + 1)

\* buildInitialIndex, lines 251-271: the version check, the clearing, the
\* first pass.
BuildStart ==
  /\ phase.st = "start"
  /\ LET kept == IF cache.v # CACHE_VERSION
                 THEN [v |-> CACHE_VERSION, files |-> <<>>] ELSE cache
     IN SetIx(FirstPass([snapshot |-> EmptySnapshot, errors |-> <<>>, cache |-> kept], 1))
  /\ phase' = [st |-> "building", next |-> 1]
  /\ last' = [NoLast EXCEPT !.ev = "build", !.reset = cache.v # CACHE_VERSION]
  /\ UNCHANGED <<disk, clock, fileDebounce, timers, handles, runs, events, hist>>
  /\ UNCHANGED qvars

\* What a reindex that went as res went leaves in the file's history.
HistAfter(h, res) ==
  IF res.how = "parse" THEN [seen |-> TRUE, content |-> res.content, pending |-> FALSE]
  ELSE IF res.how = "rewrite" THEN [seen |-> FALSE, content |-> <<>>, pending |-> TRUE]
  ELSE IF h.seen /\ h.content = res.content THEN [h EXCEPT !.pending = FALSE]
  ELSE NoHist

\* One round of the second pass (lines 274-278): the file is skipped, or read
\* and reindexed; no listener is attached yet, so a write-back raises nothing.
BuildStep ==
  /\ phase.st = "building"
  /\ phase.next \in Files
  /\ \E f \in {phase.next} :
       IF ~disk[f].exists \/ MtimeFresh(cache, disk, f)
       THEN UNCHANGED <<snapshot, errors, cache, disk, clock, hist>>
       ELSE \E res \in {reindexFileInternal(Ix, disk[f].path, disk[f].mtime,
                                             disk[f].content)} :
              /\ SetIx(res.ix)
              /\ IF res.how = "rewrite"
                 THEN /\ disk' = VaultModify(disk, f, res.content, clock)
                      /\ clock' = clock + 1
                 ELSE UNCHANGED <<disk, clock>>
              /\ hist' = [hist EXCEPT ![f] = HistAfter(@, res)]
  /\ phase' = [phase EXCEPT !.next = @ + 1]
  /\ last' = [NoLast EXCEPT !.ev = "build", !.file = phase.next, !.reset = last.reset,
                            !.read = disk[phase.next].exists
                                       /\ ~MtimeFresh(cache, disk, phase.next)]
  /\ UNCHANGED <<fileDebounce, timers, handles, runs, events>>
  /\ UNCHANGED qvars

\* buildInitialIndex returns and onload calls attachListeners (main.ts 102-105).
BuildDone ==
  /\ phase.st = "building"
  /\ phase.next \notin Files
  /\ phase' = [st |-> "live", next |-> 0]
  /\ last' = [NoLast EXCEPT !.ev = "attach", !.reset = last.reset]
  /\ UNCHANGED <<disk, clock, snapshot, errors, cache, fileDebounce, timers,
                 handles, runs, events, hist>>
  /\ UNCHANGED qvars

\* TaskIndexer.debouncedReindex(file), p being file.path.
debouncedReindex(f, p) ==
  /\ timers' = {t \in timers : t.h # fileDebounce[p]}
                 \cup {[h |-> handles + 1, file |-> f, path |-> p]}
  /\ fileDebounce' = [fileDebounce EXCEPT ![p] = handles + 1]
  /\ handles' = handles + 1

Listening == phase.st = "live" /\ events < MaxEvents

\* The file is written from outside (c may be what it held: a touch); the
\* "modify" listener runs.
ExtModify(f, c) ==
  /\ Listening
  /\ disk[f].exists
  /\ disk' = VaultModify(disk, f, c, clock)
  /\ clock' = clock + 1
  /\ debouncedReindex(f, disk[f].path)
  /\ events' = events + 1
  /\ last' = [NoLast EXCEPT !.ev = "modify", !.file = f, !.path = disk[f].path]
  /\ UNCHANGED <<phase, snapshot, errors, cache, runs, hist>>
  /\ UNCHANGED qvars

\* A file appears, at the path it had before or at a free one; the "create"
\* listener runs.
ExtCreate(f, p, c) ==
  /\ Listening
  /\ ~disk[f].exists
  /\ FileAt(disk, p) = 0
  /\ disk[f].path \in {0, p}
  /\ disk' = [disk EXCEPT ![f] = [exists |-> TRUE, path |-> p, content |-> c,
                                  mtime |-> clock]]
  /\ clock' = clock + 1
  /\ debouncedReindex(f, p)
  /\ events' = events + 1
  /\ last' = [NoLast EXCEPT !.ev = "create", !.file = f, !.path = p]
  /\ UNCHANGED <<phase, snapshot, errors, cache, runs, hist>>
  /\ UNCHANGED qvars

\* The file moves to the free path q; the "rename" listener runs.
ExtRename(f, q) ==
  /\ Listening
  /\ disk[f].exists
  /\ FileAt(disk, q) = 0
  /\ LET old == disk[f].path
     IN /\ disk' = [disk EXCEPT ![f] = [@ EXCEPT !.path = q]]
        /\ SetIx(handleRename(Ix, old, q))
        /\ last' = [NoLast EXCEPT
                      !.ev = "rename", !.file = f, !.path = old, !.to = q,
                      !.had = old \in DOMAIN cache.files,
                      !.hash = IF old \in DOMAIN cache.files
                               THEN cache.files[old].contentHash ELSE <<>>]
  /\ debouncedReindex(f, q)
  /\ events' = events + 1
  /\ hist' = [hist EXCEPT ![f] = [@ EXCEPT !.seen = FALSE, !.content = <<>>]]
  /\ UNCHANGED <<clock, phase, runs>>
  /\ UNCHANGED qvars

\* The file goes; the "delete" listener runs.
ExtDelete(f) ==
  /\ Listening
  /\ disk[f].exists
  /\ disk' = [disk EXCEPT ![f] = [@ EXCEPT !.exists = FALSE]]
  /\ SetIx(removeFile(Ix, disk[f].path))
  /\ events' = events + 1
  /\ last' = [NoLast EXCEPT !.ev = "delete", !.file = f, !.path = disk[f].path]
  /\ hist' = [hist EXCEPT ![f] = NoHist]
  /\ UNCHANGED <<clock, phase, fileDebounce, timers, handles, runs>>
  /\ UNCHANGED qvars

\* A reader that serves the copy taken when the session began.
loadFileTextHashStale(f) == content0[f]

\* main.ts 72-75, loadFileTextHashFresh: vault.read, the content on disk.
loadFileTextHashFresh(f) == disk[f].content

\* A reindexFile call: the file, what its reader returned, whether it follows
\* a mutation (1: still to read, 2: read), and for such a one the path of the
\* record, the content the mutation left, the line it rewrote (0: none) and
\* the modification time of the file when the mutation returned.
NoRun == [file |-> 0, content |-> <<>>, after |-> 0, path |-> 0, wrote |-> <<>>, at |-> 0,
          stamp |-> 0]

\* A debounce timer fires (lines 319-322): the key of the file's path goes
\* and reindexFile reads the file; the read of a file that is gone throws.
TimerFire(t) ==
  /\ t \in timers
  /\ timers' = timers \ {t}
  /\ fileDebounce' = [fileDebounce EXCEPT ![disk[t.file].path] = 0]
  /\ IF disk[t.file].exists
     THEN /\ runs' = Append(runs, [NoRun EXCEPT !.file = t.file,
                                                !.content = loadFileTextHashFresh(t.file)])
          /\ last' = [NoLast EXCEPT !.ev = "read", !.file = t.file]
     ELSE /\ runs' = runs
          /\ last' = [NoLast EXCEPT !.ev = "readfail", !.file = t.file]
  /\ UNCHANGED <<disk, clock, phase, snapshot, errors, cache, handles, events, hist>>
  /\ UNCHANGED qvars

\* reindexFile goes on from the read (lines 348-472).  A write-back is
\* vault.modify, which raises "modify"; on a file that is gone it throws.
RunApply(k) ==
  /\ k \in 1..Len(runs)
  /\ runs[k].after # 1
  /\ \E f \in {runs[k].file} : \E path \in {disk[f].path} :
     \E res \in {reindexFileInternal(Ix, path, disk[f].mtime, runs[k].content)} :
        /\ SetIx(res.ix)
        /\ IF res.how = "rewrite" /\ disk[f].exists
           THEN /\ disk' = VaultModify(disk, f, res.content, clock)
                /\ clock' = clock + 1
                /\ debouncedReindex(f, path)
           ELSE UNCHANGED <<disk, clock, fileDebounce, timers, handles>>
        /\ hist' = [hist EXCEPT ![f] = HistAfter(@, res)]
        /\ last' = [NoLast EXCEPT
                      !.ev = res.how, !.file = f, !.path = path,
                      !.had = path \in DOMAIN cache.files,
                      !.content = runs[k].content,
                      !.repeat = hist[f].seen /\ hist[f].content = runs[k].content,
                      !.after = runs[k].after = 2,
                      !.wrote = runs[k].wrote, !.at = runs[k].at,
                      !.stamp = runs[k].stamp]
  /\ runs' = RemoveAt(runs, k)
  /\ UNCHANGED <<phase, events>>
  /\ UNCHANGED qvars

(***************************************************************************)
(* The build over one file of any small text: the pre-pass and the parse   *)
(* loop of reindexFileInternal on every line of up to MaxLen tokens, and   *)
(* on files of up to MaxLines lines that repeat one another.               *)
(***************************************************************************)
MaxLen == 3
MaxLines == 3

\* Every line of up to MaxLen tokens, alone; and up to MaxLines lines that
\* differ in nothing, in the checkbox, in the comment or in the words, among
\* them a line that does not parse and one that is no task.
ParseContents ==
  LET LineTokens == {Box(0), Box(1), Todo, W(1), Date(1), Meta(1, 0)}
      ShortLines == UNION {[1..n -> LineTokens] : n \in 1..MaxLen}
      SimilarLines == { <<Box(0), W(1)>>, <<Box(1), W(1)>>, <<Box(0), W(1), Meta(1, 0)>>,
                        <<Box(0), W(2)>>, <<Box(0)>>, <<W(1)>> }
  IN {<<l>> : l \in ShortLines} \cup UNION {[1..n -> SimilarLines] : n \in 2..MaxLines}

InitParse ==
  /\ \E c \in ParseContents :
       disk = [f \in Files |->
                 IF f = 1 THEN [exists |-> TRUE, path |-> 1, content |-> c, mtime |-> 1]
                 ELSE NoFile]
  /\ cache = [v |-> CACHE_VERSION, files |-> <<>>]
  /\ clock = 2
  /\ ops = <<>>
  /\ queues = [p \in Paths |-> 0]
  /\ nextId = FirstFreshId
  /\ ext = [st |-> "idle", buf |-> <<>>, left |-> MaxExt]
  /\ content0 = [f \in Files |-> disk[f].content]
  /\ IndexFresh

NextParse ==
  \/ BuildStart
  \/ BuildStep
  \/ BuildDone

SpecParse == InitParse /\ [][NextParse]_vars

(***************************************************************************)
(* One toggleTask or rescheduleTask call with a record that has no stable  *)
(* identity and any line-number hint, on a file of up to MaxLines lines    *)
(* that repeat one another.                                                *)
(***************************************************************************)
LocateContents ==
  LET LocateLines == { <<Box(0), W(1)>>, <<Box(1), W(1)>>, <<Box(0), W(1), Meta(1, 0)>>,
                       <<Box(0), W(2)>>, <<W(1)>>, <<Box(0), W(1), Date(1), Rec(1)>> }
  IN UNION {[1..n -> LocateLines] : n \in 1..MaxLines}

\* The records the views may hold: the parse of a line without comment, with
\* a hint that may be stale.
LocateTasks ==
  {[TaskOfLine(1, <<l>>, 1) EXCEPT !.lineNoHint = h] :
     l \in {<<Box(0), W(1)>>, <<Box(1), W(1)>>, <<Box(0), W(1), Date(1), Rec(1)>>},
     h \in 0..MaxLines}

LocateToggle(t) == ops = <<>> /\ toggleTask(1, t)

LocateReschedule(t, newDate) == ops = <<>> /\ rescheduleTask(1, t, newDate)

InitLocate ==
  /\ \E c \in LocateContents :
       disk = [f \in Files |->
                 IF f = 1 THEN [exists |-> TRUE, path |-> 1, content |-> c, mtime |-> 1]
                 ELSE NoFile]
  /\ clock = 2
  /\ ops = <<>>
  /\ queues = [p \in Paths |-> 0]
  /\ nextId = FirstFreshId
  /\ ext = [st |-> "idle", buf |-> <<>>, left |-> MaxExt]
  /\ content0 = [f \in Files |-> disk[f].content]
  /\ IndexIdle

NextLocate ==
  \/ \E t \in LocateTasks : LocateToggle(t)
  \/ \E t \in LocateTasks : LocateReschedule(t, 2)
  \/ \E i \in 1..MaxOps : OpRead(i)
  \/ \E i \in 1..MaxOps : OpWrite(i)

SpecLocate == InitLocate /\ [][NextLocate]_vars

\* The records of the two identity maps.
IndexedTasks ==
  {snapshot.tasksByStableId[k] : k \in DOMAIN snapshot.tasksByStableId}
    \cup {snapshot.tasksByEphemeralId[k] : k \in DOMAIN snapshot.tasksByEphemeralId}

\* handleToggle and handleReschedule (main.ts 321-339, 377-392) up to the
\* return of the editor's call on the record t: the queued operation reads the
\* file, rewrites the line it locates and writes if the content changed, which
\* raises "modify"; the reindexFile call that follows is still to read.
handleMutation(t, new, at, ids) ==
  /\ Listening
  /\ \E f \in {FileAt(disk, t.filePath)} :
       /\ f # 0
       /\ IF new # disk[f].content
          THEN /\ disk' = VaultModify(disk, f, new, clock)
               /\ clock' = clock + 1
               /\ debouncedReindex(f, t.filePath)
          ELSE UNCHANGED <<disk, clock, fileDebounce, timers, handles>>
       /\ runs' = Append(runs, [NoRun EXCEPT !.file = f, !.after = 1, !.path = t.filePath,
                                             !.wrote = new, !.at = at,
                                             !.stamp = IF new # disk[f].content
                                                       THEN clock ELSE disk[f].mtime])
       /\ last' = [NoLast EXCEPT !.ev = "mutate", !.file = f, !.path = t.filePath]
  /\ nextId' = nextId + ids
  /\ events' = events + 1
  /\ UNCHANGED <<phase, snapshot, errors, cache, hist, ops, queues, ext, content0>>

handleToggle(t) ==
  \E f \in {FileAt(disk, t.filePath)} :
    /\ f # 0
    /\ handleMutation(t, ToggleContent(disk[f].content, t, nextId),
                      LocateLine(disk[f].content, t),
                      ToggleIdsUsed(disk[f].content, t))

handleReschedule(t, newDate) ==
  \E f \in {FileAt(disk, t.filePath)} :
    /\ f # 0
    /\ handleMutation(t, RescheduleContent(disk[f].content, t, newDate, nextId),
                      LocateLine(disk[f].content, t),
                      RescheduleIdsUsed(disk[f].content, t, newDate))

\* main.ts 335-337: the file now at the record's path, if any, is read by the
\* fresh reader for the reindexFile call that follows the mutation.
FollowUpRead(k) ==
  /\ k \in 1..Len(runs)
  /\ runs[k].after = 1
  /\ \E f \in {FileAt(disk, runs[k].path)} :
       IF f = 0
       THEN /\ runs' = RemoveAt(runs, k)
            /\ last' = [NoLast EXCEPT !.ev = "noread", !.path = runs[k].path]
       ELSE /\ runs' = [runs EXCEPT ![k] = [@ EXCEPT !.file = f, !.after = 2,
                                                     !.content = loadFileTextHashFresh(f)]]
            /\ last' = [NoLast EXCEPT !.ev = "read", !.file = f]
  /\ UNCHANGED <<disk, clock, phase, snapshot, errors, cache, fileDebounce, timers,
                 handles, events, hist>>
  /\ UNCHANGED qvars

NextIndex ==
  \/ BuildStart
  \/ BuildStep
  \/ BuildDone
  \/ \E f \in Files : \E c \in IndexContents : ExtModify(f, c)
  \/ \E f \in Files : \E p \in Paths : \E c \in IndexContents : ExtCreate(f, p, c)
  \/ \E f \in Files : \E q \in Paths : ExtRename(f, q)
  \/ \E f \in Files : ExtDelete(f)
  \/ \E t \in timers : TimerFire(t)
  \/ \E k \in 1..Len(runs) : RunApply(k)
  \/ \E t \in IndexedTasks : handleToggle(t)
  \/ \E t \in IndexedTasks : \E d \in NewDates : handleReschedule(t, d)
  \/ \E k \in 1..Len(runs) : FollowUpRead(k)

SpecIndex == InitIndex /\ [][NextIndex]_vars

(***************************************************************************)
(* Claims about the indexer (under SpecIndex).                             *)
(***************************************************************************)
TasksUnder(p) == {t \in IndexedTasks : t.filePath = p}

ErrorsUnder(p) == SelectSeq(errors, LAMBDA e : e.filePath = p)

ParsedSet(p, content) ==
  LET ts == ParseTasks(p, content) IN {ts[k] : k \in 1..Len(ts)}

\* Every timer has fired and every reindex has settled.
Quiescent == phase.st = "live" /\ timers = {} /\ runs = <<>>

\* C5: at quiescence the index holds, for each path, exactly the records of
\* the parse of the file now at that path, and none for a path without a file.
C5_IndexMatchesDisk ==
  Quiescent =>
    \A p \in Paths :
      TasksUnder(p) = IF FileAt(disk, p) = 0 THEN {}
                      ELSE ParsedSet(p, disk[FileAt(disk, p)].content)

\* C6: a reindex that reads the content the file's previous reindex read, a
\* full parse having come before, hydrates from the cache, leaves the file's
\* records the same and adds no parse error.
C6_RepeatHydrates ==
  last.repeat =>
    /\ last.ev = "hydrate"
    /\ TasksUnder(last.path) = ParsedSet(last.path, last.content)
    /\ ErrorsUnder(last.path) = ParseErrors(last.path, last.content)

\* What a full reparse of the content read leaves for the path.
ReparsedExactly ==
  /\ TasksUnder(last.path) = ParsedSet(last.path, last.content)
  /\ last.path \in DOMAIN cache.files
  /\ cache.files[last.path].path = last.path
  /\ cache.files[last.path].mtime = disk[last.file].mtime
  /\ cache.files[last.path].contentHash = fnv1a32(ContentCodes(last.content))

\* C7: a reindex that misses the cache and finds no line to convert parses
\* the file in full: the index holds exactly the records of the content read
\* and the cache holds an entry with the path, the file's modification time
\* and the hash of that content.
C7_FullReparse == last.ev = "parse" => ReparsedExactly

\* A file with records and a cache entry was reindexed on other content and
\* parsed in full.
C7_Witness ==
  /\ last.ev = "parse"
  /\ last.had
  /\ ~last.repeat
  /\ TasksUnder(last.path) # {}

\* C7 as stated: every reindex that misses the cache leaves the records of the
\* content read and the new cache entry.
C7_AsStated == last.ev \in {"parse", "rewrite"} => ReparsedExactly

\* C8: at quiescence no file is left whose converted content, written back by
\* the pre-pass, has not been indexed by a later reindex.
C8_ConvertedFilesParsed ==
  Quiescent => \A f \in Files : ~hist[f].pending

\* C9: after a delete event the path has no record in either identity map, no
\* error in the error list and no entry in the cache.
C9_DeleteClearsPath ==
  last.ev = "delete" =>
    /\ TasksUnder(last.path) = {}
    /\ ErrorsUnder(last.path) = <<>>
    /\ last.path \notin DOMAIN cache.files

\* C10: after a rename of a file that had a cache entry, the entry is under the
\* new path with the old hash and the new path in it, the old path has neither
\* entry nor record, and one reindex of the file is scheduled.
C10_RenameMovesEntry ==
  (last.ev = "rename" /\ last.had) =>
    /\ last.to \in DOMAIN cache.files
    /\ cache.files[last.to].contentHash = last.hash
    /\ cache.files[last.to].path = last.to
    /\ last.path \notin DOMAIN cache.files
    /\ TasksUnder(last.path) = {}
    /\ Cardinality({t \in timers : t.file = last.file}) = 1

\* A step that completes a full parse of the file at last'.path.
ParseStep == Len(runs') < Len(runs) /\ last'.ev = "parse"

\* The record t of a file at path carries a stable identity that the index
\* holds for a record of another file.
Collides(t, path) ==
  /\ t.stableId # 0
  /\ StableKey(t.stableId) \in DOMAIN snapshot.tasksByStableId
  /\ snapshot.tasksByStableId[StableKey(t.stableId)].filePath # path

\* C11: when a record is added whose stable identity is already in the
\* stable-identity map, the entry of the map stays as it was, a duplicate
\* identity error is in the error list, and the record is indexed under its
\* ephemeral identity and owned by its file.
C11_DuplicateDemoted ==
  [][ParseStep =>
       \A t \in ParsedSet(last'.path, last'.content) :
         Collides(t, last'.path) =>
           /\ StableKey(t.stableId) \in DOMAIN snapshot'.tasksByStableId
           /\ snapshot'.tasksByStableId[StableKey(t.stableId)]
                = snapshot.tasksByStableId[StableKey(t.stableId)]
           /\ \E n \in 1..Len(errors') : errors'[n] = DuplicateError(t)
           /\ t.ephemeralId \in DOMAIN snapshot'.tasksByEphemeralId
           /\ snapshot'.tasksByEphemeralId[t.ephemeralId] = t
           /\ t.ephemeralId \in snapshot'.fileToTaskIds[last'.path]]_vars

\* A full parse has just indexed a record whose stable identity belongs to a
\* record of another file.
C11_Witness ==
  /\ last.ev = "parse"
  /\ \E t \in ParsedSet(last.path, last.content) :
       /\ t.stableId # 0
       /\ StableKey(t.stableId) \in DOMAIN snapshot.tasksByStableId
       /\ snapshot.tasksByStableId[StableKey(t.stableId)].filePath # last.path
       /\ t.ephemeralId \in DOMAIN snapshot.tasksByEphemeralId

\* The pending timers that debouncedReindex set for a file at path p.
TimersFor(p) == {t \in timers : t.path = p}

\* C12: for each file path there is at most one pending debounce timer (each
\* change event for the path cancels the pending one), so that a burst of
\* events for the path ends in one reindex.
C12_OneTimerPerPath == \A p \in Paths : Cardinality(TimersFor(p)) <= 1

(***************************************************************************)
(* Further claims about the mutations (under SpecQueue).                   *)
(***************************************************************************)
\* The line carries a persisted completion date.
Stamped(line) == parseTodoMeta(line).done # 0

\* C13: after any sequence of toggleTask calls on a line, several of them
\* from one snapshot record included, the line carries a completion date
\* exactly when it is checked.
C13_DateIffChecked ==
  \A p \in Paths : \A t \in UiTasks(p) :
    (OnlyTogglesOf(p, t) /\ (\A k \in 1..Len(ops) : Settled(k))) =>
      LET line == disk[FileAt(disk, p)].content[LocateLine(content0[FileAt(disk, p)], t)]
      IN IsChecked(line) <=> Stamped(line)

\* Operation i, a toggleTask, goes in this step from its read to its settling
\* with a write.
ToggleWrites(i) ==
  /\ ops[i].kind = "toggle"
  /\ ops[i].st = "read"
  /\ ops'[i].st = "settled"
  /\ ops'[i].wrote

\* The record is unchecked, recurring and due, and so is the line the
\* operation found for it in what it read.
UncheckedRecurring(task, buf) ==
  /\ ~task.checked /\ task.recurrence # 0 /\ task.dueRaw # 0
  /\ LocateLine(buf, task) # 0
  /\ ~IsChecked(buf[LocateLine(buf, task)])

\* The stable identities of the lines of a content other than line k.
IdsBut(content, k) ==
  {parseTodoMeta(content[j]).id : j \in (1..Len(content)) \ {k}} \ {0}

ResultOf(i) == [success |-> ops[i].res = "ok"]

\* Operation i, a toggle or a reschedule, read the file and found no line for
\* its record.
NotLocated(i) ==
  /\ ops[i].kind \in {"toggle", "reschedule"}
  /\ Settled(i) /\ Enqueued(i) /\ ~ops[i].ioFail
  /\ LocateLine(ops[i].buf, ops[i].task) = 0

Applied(i) == Settled(i) /\ ops[i].wrote

\* C15: a toggle or reschedule that cannot locate its line writes nothing and
\* returns a result that differs from the result of an applied mutation.
C15_NotFoundIsReported ==
  \A i \in 1..Len(ops) :
    NotLocated(i) =>
      /\ ~ops[i].wrote
      /\ \A j \in 1..Len(ops) : Applied(j) => ResultOf(i) # ResultOf(j)

\* C16: a mutation called with a path that resolves to no file returns a
\* failure, enqueues nothing on the write queue and writes nothing.
C16_NoFileFails ==
  [][\A i \in 1..Len(ops') :
       (IF i > Len(ops) THEN FileAt(disk, ops'[i].path) = 0 ELSE ops[i].st = "nofile") =>
         /\ ops'[i].st = "nofile"
         /\ ~ResultOf(i)'.success
         /\ ~ops'[i].wrote
         /\ \A p \in Paths : queues'[p] # i
         /\ \A j \in 1..Len(ops') : ops'[j].prev # i
         /\ (i > Len(ops) => disk' = disk /\ queues' = queues)]_vars

\* The file has gone and each of the three mutations has been called for it.
C16_Witness ==
  /\ ~disk[1].exists
  /\ \A k \in {"toggle", "reschedule", "add"} :
       \E i \in 1..Len(ops) : ops[i].kind = k /\ ops[i].st = "nofile" /\ ops[i].path = 1

\* C17: when the read or the write inside a queued mutation fails, the call
\* returns a failure result instead of raising, and a mutation of the same
\* file queued behind it can start.
C17_FailureIsReturned ==
  \A i \in 1..Len(ops) :
    ops[i].ioFail =>
      /\ Settled(i)
      /\ ops[i].res = "err"
      /\ ~ResultOf(i).success
      /\ ~ops[i].wrote
      /\ \A j \in 1..Len(ops) : (ops[j].prev = i /\ ops[j].st = "queued") => CanStart(j)

\* A mutation failed in its read or write and the mutation of the same file
\* queued behind it has been applied.
C17_Witness ==
  \E i, j \in 1..Len(ops) :
    /\ ops[i].ioFail /\ ops[i].res = "err"
    /\ ops[j].prev = i /\ ops[j].file = ops[i].file
    /\ Applied(j) /\ ResultOf(j).success

\* Operation i goes in this step from its read to its settling.
Finishes(i) == ops[i].st = "read" /\ ops'[i].st = "settled"

\* Operation i reschedules its record to the date the record has, and the
\* line it found in what it read carries a stable identity.
SameDateOnTaggedLine(i) ==
  /\ ops[i].kind = "reschedule"
  /\ ops[i].task.dueRaw # 0 /\ ops[i].task.dueRaw = ops[i].date
  /\ LocateLine(ops[i].buf, ops[i].task) # 0
  /\ parseTodoMeta(ops[i].buf[LocateLine(ops[i].buf, ops[i].task)]).id # 0

\* C18: no mutation writes content equal to the content it read; rescheduling
\* a task to the date it has, on a line with a stable identity, writes nothing.
C18_NoIdleWrite ==
  [][\A i \in 1..Len(ops) :
       Finishes(i) =>
         /\ disk'[ops[i].file] # disk[ops[i].file] =>
              disk'[ops[i].file].content # ops[i].buf
         /\ SameDateOnTaggedLine(i) => disk' = disk /\ ~ops'[i].wrote]_vars

\* A reschedule to the date the task has, of a line with a stable identity,
\* has settled without a write.
C18_Witness ==
  \E i \in 1..Len(ops) :
    /\ SameDateOnTaggedLine(i)
    /\ Settled(i) /\ ResultOf(i).success /\ ~ops[i].wrote
    /\ disk[ops[i].file].content = ops[i].buf

\* The stable-identity comments of a line.
MetaCount(line) == Cardinality({k \in 1..Len(line) : IsMeta(line[k])})

\* C19: after toggleTask or rescheduleTask has rewritten the line it located,
\* the line carries exactly one stable-identity comment: the identity it
\* carried before, or a new one if it carried none.
C19_OneStableId ==
  [][\A i \in 1..Len(ops) :
       (Finishes(i) /\ ops'[i].wrote /\ ops[i].kind \in {"toggle", "reschedule"}) =>
         LET idx == LocateLine(ops[i].buf, ops[i].task)
             before == ops[i].buf[idx]
             after == disk'[ops[i].file].content[idx]
         IN /\ MetaCount(after) = 1
            /\ parseTodoMeta(after).id # 0
            /\ parseTodoMeta(before).id # 0 =>
                 parseTodoMeta(after).id = parseTodoMeta(before).id]_vars

(***************************************************************************)
(* Further claims about the indexer (under SpecIndex).                     *)
(***************************************************************************)
\* buildInitialIndex has just returned, having discarded the persisted cache
\* (none was saved, or its version is not the current one).
BuiltAfterReset == last.ev = "attach" /\ last.reset

\* The file is in the index as a full parse of its content leaves it: its
\* records, its parse errors and its cache entry.
FullyParsed(f) ==
  LET p == disk[f].path
  IN /\ TasksUnder(p) = ParsedSet(p, disk[f].content)
     /\ ErrorsUnder(p) = ParseErrors(p, disk[f].content)
     /\ p \in DOMAIN cache.files
     /\ cache.files[p] = CacheEntry(p, cache.files[p].mtime, disk[f].content)

\* C20: a build that starts from a persisted cache of another version, or
\* from none, replaces the cache by one of the current version with entries
\* only of this build, and leaves every file fully parsed, with no error
\* besides the parse errors of the files.
C20_ResetReparsesAll ==
  BuiltAfterReset =>
    /\ cache.v = CACHE_VERSION
    /\ \A f \in Files : disk[f].exists => FullyParsed(f)
    /\ \A p \in DOMAIN cache.files : FileAt(disk, p) # 0
    /\ \A n \in 1..Len(errors) : errors[n].reason = "Invalid todo format"

(***************************************************************************)
(* Claims about the reindex that follows a mutation (under SpecIndex).     *)
(***************************************************************************)
\* The step completes the reindexFile call that follows a mutation which
\* rewrote a line, and nothing has modified the file since the mutation: it
\* holds what the mutation left, with the modification time of then.
FollowUpCompletes ==
  /\ last'.after
  /\ last'.at # 0
  /\ disk[last'.file].content = last'.wrote
  /\ disk[last'.file].mtime = last'.stamp

\* The index holds, under the path, a record of the line the mutation wrote.
Reflects ==
  \E r \in TasksUnder(last.path) :
    /\ r.rawLine = last.wrote[last.at]
    /\ r.checked = IsChecked(last.wrote[last.at])

\* C21: when the reindex that follows toggleTask or rescheduleTask completes
\* by parsing or by hydrating, and the file still holds what the mutation
\* wrote, the index holds a record of the mutated line as written.
C21_FollowUpReflects ==
  [][(FollowUpCompletes /\ last'.ev \in {"parse", "hydrate"}) => Reflects']_vars

\* C21 as stated: whenever the write and the reindex that follows it have both
\* completed, the record reflects the line as written.
C21_AsStated == [][FollowUpCompletes => Reflects']_vars

C21_Witness ==
  /\ last.after
  /\ last.at # 0
  /\ last.ev = "parse"
  /\ disk[last.file].content = last.wrote
  /\ disk[last.file].mtime = last.stamp
  /\ Reflects
  /\ IsChecked(last.wrote[last.at])

(***************************************************************************)
(* Claims about a stalled queue (under SpecStall).                         *)
(***************************************************************************)
\* C22: whatever becomes of the operations of key A, one of which may hang in
\* its I/O for ever, every operation enqueued for key B starts and settles.
C22_OtherKeyCompletes ==
  \A i \in 1..MaxOps :
    (i <= Len(ops) /\ ops[i].path = KeyB /\ ops[i].st = "queued") ~> (i <= Len(ops) /\ Settled(i))

C22_Witness ==
  \E i, j \in 1..Len(ops) :
    /\ i < j
    /\ ops[i].path = KeyA /\ ops[i].st = "read"
    /\ ops[j].path = KeyB /\ Settled(j) /\ ops[j].res = "ok" /\ ops[j].wrote

(***************************************************************************)
(* Claims about what a reindex shows while it waits (under SpecIndex).     *)
(***************************************************************************)
\* The step takes a reindex of an existing file from its read to its second
\* await, the vault.modify of the converted content (line 375).
ReachesWriteBack == last'.ev = "rewrite" /\ disk[last'.file].exists

\* C23: at the suspension points of a reindex the records the index holds for
\* the file are those it held before the reindex began or those of the new
\* content, never an emptied set: checked at the await of the write-back, the
\* only suspension point after the read.
C23_OneGeneration ==
  [][ReachesWriteBack =>
       \A p \in Paths : \A f \in Files :
         (p = last'.path /\ f = last'.file) =>
           TasksUnder(p)' \in {TasksUnder(p), ParsedSet(p, disk'[f].content)}]_vars

(***************************************************************************)
(* Claims about the parse pass and the pre-pass (under SpecParse).         *)
(***************************************************************************)
\* The build has parsed file 1 in full.
Parsed1 == phase.st = "live" /\ hist[1].seen

\* normalizeForMatch(stripTodoMeta(line)) of a record's line.
NormalizedOf(r) == normalizeForMatch(stripTodoMeta(r.rawLine))

\* The records of path 1 whose lines normalize like r's, up to r's line.
SameTextUpTo(r) ==
  {q \in TasksUnder(1) : NormalizedOf(q) = NormalizedOf(r) /\ q.lineNoHint <= r.lineNoHint}

\* The occurrence index an ephemeral identity ends with.
OccOf(r) == r.ephemeralId[Len(r.ephemeralId)]

\* C24: after one parse pass every line that parses has its record, the
\* records of lines with the same normalized text have occurrence indices
\* 1, 2, ..., N in document order, and no two records share an ephemeral
\* identity.
C24_OccurrencesCount ==
  Parsed1 =>
    /\ Cardinality(TasksUnder(1))
         = Cardinality({i \in 1..Len(disk[1].content) : LineParses(disk[1].content, i)})
    /\ \A r \in TasksUnder(1) : OccOf(r) = Cardinality(SameTextUpTo(r))
    /\ \A r, q \in TasksUnder(1) : r # q => r.ephemeralId # q.ephemeralId

C24_Witness ==
  /\ Parsed1
  /\ \E r \in TasksUnder(1) :
       /\ OccOf(r) = 3
       /\ \E q \in SameTextUpTo(r) : q.checked /\ OccOf(q) = 2
       /\ \E q \in SameTextUpTo(r) : q.stableId # 0 /\ OccOf(q) = 1

\* C25: normalizeToCheckboxFormat is idempotent: the content the pre-pass
\* has written back is left as it is by a second pre-pass.
C25_PrePassIdempotent ==
  (disk[1].exists /\ hist[1].pending) => NormalizeLines(disk[1].content) = disk[1].content

(***************************************************************************)
(* Claims about the line addTask composes (under SpecCompose).             *)
(***************************************************************************)
\* The line the settled addTask call has appended: the last but the empty one.
AddedLine == disk[1].content[Len(disk[1].content) - 1]

Added == Len(ops) = 1 /\ Settled(1) /\ ops[1].res = "ok"

\* parseTodoLine gives back the fields the line was composed from.
RoundTrips(t, line) ==
  \E parsed \in {parseTodoLine(line)} :
    /\ parsed.ok
    /\ ~parsed.checked
    /\ parsed.title = t.title
    /\ parsed.priority = t.priority
    /\ parsed.tags = t.tags
    /\ parsed.project = t.project
    /\ parsed.dueRaw = t.dueRaw
    /\ parsed.estimate = t.estimate

\* C26: parseTodoLine of the line addTask composed from a title, a priority,
\* tags, a project, a due date and an estimate returns those fields, unchecked.
C26_RoundTrip == Added => RoundTrips(ops[1].task, AddedLine)

(***************************************************************************)
(* Claims about the date arithmetic (under SpecDates).                     *)
(***************************************************************************)
\* The month k months after date's, with the last of its days that date's day
\* does not exceed.
ClampedMonth(date, k) ==
  LET idx == (date.m - 1) + k
      y == date.y + (idx \div 12)
      m == (idx % 12) + 1
  IN [y |-> y, m |-> m, d |-> IF date.d <= DaysIn(y, m) THEN date.d ELSE DaysIn(y, m)]

\* C27: the next occurrence of a monthly task is the same day of the target
\* month, or the last day of that month when it has no such day: for a task
\* due 2026-01-31, the last day of February 2026.
C27_MonthClamps ==
  \A i \in 1..Len(ops) :
    ops[i].kind = "month" => ops[i].res = ClampedMonth(ops[i].date, ops[i].interval)

\* C28: "next <weekday>" resolves to a day of that weekday in the week after
\* the current one: after the Sunday that ends this week and no later than
\* the Sunday after it; so never to today.
C28_NextIsFollowingWeek ==
  \A i \in 1..Len(ops) :
    (ops[i].kind = "weekday" /\ ops[i].forceNext) =>
      /\ ops[i].res % 7 = ops[i].target
      /\ ops[i].res > getEndOfWeek(clock)
      /\ ops[i].res <= getEndOfWeek(clock) + 7
      /\ ops[i].res # clock

(***************************************************************************)
(* Claims about the queue map (under SpecQueue).                           *)
(***************************************************************************)
\* The operations enqueued for key p that have not settled.
Unsettled(p) ==
  {i \in 1..Len(ops) : ops[i].path = p /\ Enqueued(i) /\ ~Settled(i)}

\* C29: the queue map has an entry for a key exactly while some operation
\* enqueued for that key has not settled, and the entry is then the last
\* operation enqueued for the key; once all have settled there is none.
C29_EntryWhileUnsettled ==
  \A p \in Paths :
    /\ queues[p] # 0 <=> Unsettled(p) # {}
    /\ queues[p] # 0 =>
         /\ queues[p] \in Unsettled(p)
         /\ \A i \in Unsettled(p) : i <= queues[p]

\* An operation has settled while a later one of its key was pending, and the
\* key stayed; and a key whose operations have all settled is gone.
C29_Witness ==
  /\ \E i, j \in 1..Len(ops) :
       /\ i < j
       /\ ops[i].path = ops[j].path
       /\ Enqueued(i) /\ Settled(i)
       /\ ops[j].st = "read"
       /\ queues[ops[j].path] = j
  /\ \E p \in Paths :
       /\ queues[p] = 0
       /\ \E i \in 1..Len(ops) : ops[i].path = p /\ Enqueued(i) /\ Settled(i)

(***************************************************************************)
(* Claims about the two passes of the build (under SpecIndex).             *)
(***************************************************************************)
\* The second pass is at an existing file.
SecondPassAt(f) == phase.st = "building" /\ phase.next = f /\ disk[f].exists

\* The records of the cache entry of path p, none without an entry.
CachedSet(p) ==
  IF p \in DOMAIN cache.files
  THEN {[cache.files[p].tasks[k] EXCEPT !.filePath = p] : k \in 1..Len(cache.files[p].tasks)}
  ELSE {}

\* C30: in the build the reader is invoked for a file exactly if it has no
\* cache entry with its modification time, and when the build returns the
\* records of each file are those of its cache entry or those of the parse of
\* its content.
C30_CacheOrReader ==
  [][/\ \A f \in Files :
          SecondPassAt(f) => (last'.read <=> ~MtimeFresh(cache, disk, f))
     /\ (phase.st = "building" /\ phase'.st = "live") =>
          \A f \in Files : \A p \in Paths :
            (disk[f].exists /\ disk[f].path = p) =>
              \/ p \in DOMAIN cache.files /\ TasksUnder(p) = CachedSet(p)
              \/ TasksUnder(p) = ParsedSet(p, disk[f].content)]_vars

(***************************************************************************)
(* Claims about the line a mutation rewrites (under SpecLocate).           *)
(***************************************************************************)
\* The lines of the content read that equal the record's line up to the
\* checkbox state and the comment.
MatchingLines(i) ==
  {k \in 1..Len(ops[i].buf) :
     /\ isTodoLine(ops[i].buf[k])
     /\ normalizeForMatch(stripTodoMeta(ops[i].buf[k]))
          = normalizeForMatch(stripTodoMeta(ops[i].task.rawLine))}

\* What the call left in the file, without the next-occurrence line a
\* completion inserts below line k.
LeftBy(i, k) ==
  At(LAMBDA now : IF Len(now) > Len(ops[i].buf) THEN RemoveAt(now, k + 1) ELSE now,
     disk[ops[i].file].content)

\* Line k is the one the call changed: flipped by a toggle, dated by a
\* reschedule.
Rewrote(i, k) ==
  IF ops[i].kind = "toggle"
  THEN IsChecked(LeftBy(i, k)[k]) # IsChecked(ops[i].buf[k])
  ELSE \E n \in 1..Len(LeftBy(i, k)[k]) : LeftBy(i, k)[k][n] = Date(ops[i].date)

\* C31: a mutation by a record without stable identity, on a file with two
\* or more lines of the record's normalized content, rewrites a matching line
\* that is closest to the record's line-number hint and no other line.
C31_ClosestToHint ==
  \A i \in 1..Len(ops) :
    (Settled(i) /\ ops[i].task.stableId = 0 /\ Cardinality(MatchingLines(i)) >= 2) =>
      \E k \in MatchingLines(i) :
        /\ \A j \in MatchingLines(i) :
             Abs((k - 1) - ops[i].task.lineNoHint) <= Abs((j - 1) - ops[i].task.lineNoHint)
        /\ Rewrote(i, k)
        /\ Len(LeftBy(i, k)) = Len(ops[i].buf)
        /\ \A j \in 1..Len(ops[i].buf) : j # k => LeftBy(i, k)[j] = ops[i].buf[j]

\* Two equal lines first and third, a record with the hint of the third: only
\* the third is flipped.
C31_Witness ==
  /\ Len(ops) = 1
  /\ Settled(1)
  /\ ops[1].kind = "toggle"
  /\ ops[1].task.lineNoHint = 2
  /\ MatchingLines(1) = {1, 3}
  /\ disk[1].content[1] = ops[1].buf[1]
  /\ IsChecked(disk[1].content[3]) # IsChecked(ops[1].buf[3])

(***************************************************************************)
(* Claims about a custom recurrence (under SpecDates).                     *)
(***************************************************************************)
\* C32: with a non-empty weekday set the next occurrence is the first day
\* after the due date whose weekday is in the set, at most 7 days later; with
\* an empty set it is the due date.
C32_NextInSet ==
  \A i \in 1..Len(ops) :
    ops[i].kind = "custom" =>
      IF ops[i].days = {} THEN ops[i].res = ops[i].date
      ELSE /\ ops[i].res \in (ops[i].date + 1)..(ops[i].date + 7)
           /\ (ops[i].res % 7) \in ops[i].days
           /\ \A d \in (ops[i].date + 1)..(ops[i].res - 1) : (d % 7) \notin ops[i].days

\* A Wednesday with the set Mon, Wed, Fri gives the Friday after it.
C32_Witness ==
  /\ Len(ops) = 1
  /\ ops[1].kind = "custom"
  /\ ops[1].date = 3
  /\ ops[1].days = {1, 3, 5}
  /\ ops[1].res = 5

(***************************************************************************)
(* Claims about the next occurrence of a recurring task (under SpecQueue). *)
(***************************************************************************)
\* Operation i is a toggleTask call that completes in this step by writing
\* a file longer than the one it read: it inserted a line.
InsertsSibling(i) ==
  /\ i \in 1..Len(ops)
  /\ ops[i].kind = "toggle"
  /\ ops[i].st = "read"
  /\ ops'[i].st = "settled"
  /\ ops'[i].wrote
  /\ Len(disk'[ops[i].file].content) > Len(ops[i].buf)

\* C33: a toggleTask call inserts a next-occurrence line only if it changes
\* the line it rewrites from unchecked to checked.
C33_SiblingPerCompletion ==
  [][\A i \in 1..MaxOps :
       InsertsSibling(i) =>
         \E k \in {LocateLine(ops[i].buf, ops[i].task)} :
           /\ ~IsChecked(ops[i].buf[k])
           /\ IsChecked(disk'[ops[i].file].content[k])]_vars

(***************************************************************************)
(* Claims about the index and the cache under events (under SpecIndex).    *)
(***************************************************************************)
\* C34: the entry a reindex has just stored or refreshed carries the hash
\* and the tasks of the content the file has at the modification time the
\* entry carries, which is the file's when the entry is stored.
C34_EntryCoherent ==
  (/\ last.ev \in {"parse", "hydrate"}
   /\ disk[last.file].exists
   /\ last.path \in DOMAIN cache.files
   /\ cache.files[last.path].mtime = disk[last.file].mtime) =>
    /\ cache.files[last.path].contentHash = fnv1a32(ContentCodes(disk[last.file].content))
    /\ cache.files[last.path].tasks = ParseTasks(last.path, disk[last.file].content)

\* The last step ran reindex work of a file that has been deleted, and no
\* other file has taken its path: the timer's read failed, or a reindex that
\* had read the file went on.
RanAfterDelete ==
  /\ last.ev \in {"readfail", "parse", "hydrate", "rewrite"}
  /\ ~disk[last.file].exists
  /\ FileAt(disk, disk[last.file].path) = 0

PathClear(p) ==
  /\ TasksUnder(p) = {}
  /\ ErrorsUnder(p) = <<>>
  /\ p \notin DOMAIN cache.files

\* C35: reindex work of a deleted file whose path the index holds nothing
\* for (no record, no error, no cache entry) leaves it so.
C35_DeleteWins ==
  [][\A f \in Files : \A p \in Paths :
       (f = last'.file /\ p = disk[f].path /\ RanAfterDelete' /\ PathClear(p))
         => PathClear(p)']_vars

\* C36: when a reindex has completed by a full parse or by hydration, the
\* parse errors listed for the path are those of the content it read, each
\* once, and no other.
C36_ErrorsOfLatest ==
  last.ev \in {"parse", "hydrate"} =>
    SelectSeq(ErrorsUnder(last.path), LAMBDA e : e.reason = "Invalid todo format")
      = ParseErrors(last.path, last.content)

\* The identity is listed in fileToTaskIds under the path.
ListedUnder(id, p) ==
  p \in DOMAIN snapshot.fileToTaskIds /\ id \in snapshot.fileToTaskIds[p]

\* C37: every identity listed for a path resolves, in the stable or in the
\* ephemeral map, to a record of that path, and every record of either map is
\* listed under its own path.
C37_MapsAgree ==
  /\ \A p \in DOMAIN snapshot.fileToTaskIds : \A id \in snapshot.fileToTaskIds[p] :
       \/ id \in DOMAIN snapshot.tasksByStableId
            /\ snapshot.tasksByStableId[id].filePath = p
       \/ id \in DOMAIN snapshot.tasksByEphemeralId
            /\ snapshot.tasksByEphemeralId[id].filePath = p
  /\ \A id \in DOMAIN snapshot.tasksByStableId :
       ListedUnder(id, snapshot.tasksByStableId[id].filePath)
  /\ \A id \in DOMAIN snapshot.tasksByEphemeralId :
       ListedUnder(id, snapshot.tasksByEphemeralId[id].filePath)

\* C38: once every timer has fired and every reindex has settled, every
\* stable identity that a record of the index carries is a key of the
\* stable-identity map.
C38_StableReachable ==
  Quiescent =>
    \A t \in IndexedTasks :
      t.stableId # 0 => StableKey(t.stableId) \in DOMAIN snapshot.tasksByStableId

(***************************************************************************)
(* Claims about addTask calls in a row (under SpecAppend).                 *)
(***************************************************************************)
\* C39: when all the addTask calls issued in a row for the file have
\* completed, the file holds what it held at first, without its trailing
\* blank lines, then the line of each call in submission order, then the
\* final newline.
C39_AppendedInOrder ==
  (ops # <<>> /\ \A i \in 1..Len(ops) : Settled(i)) =>
    disk[1].content
      = TrimEnd(content0[1]) \o [i \in 1..Len(ops) |-> ComposeTask(ops[i].task)] \o << <<>> >>

\* Three calls, the second with another title than the first and the third,
\* have completed.
C39_Witness ==
  /\ Len(ops) = 3
  /\ \A i \in 1..3 : Settled(i) /\ ops[i].res = "ok"
  /\ ops[1].task.title # ops[2].task.title
  /\ ops[3].task.title = ops[1].task.title
  /\ Len(disk[1].content) = Len(TrimEnd(content0[1])) + 4

====
